---- MODULE Spec2Model ----
(***************************************************************************)
(* A model of garden's task execution engine: the task graph solver, the   *)
(* task definitions (Build, Deploy, Test, DeleteDeploy and their status    *)
(* variants), the processing of command results, and the watch loop of     *)
(* processActions.                                                         *)
(***************************************************************************)
EXTENDS Integers, Sequences, FiniteSets, TLC

\* ------------------------------------------------------------------ bounds

\* Size of the solver's worker pool (N; the default is the CPU count).
PoolSize == 2
\* Number of passes (garden.processTasks calls) one behaviour runs.
MaxPasses == 2
\* Number of events the watch loop serves in one behaviour.
MaxEvents == 2
\* Number of Deploy actions of the project the delete command runs on.
NumDeploys == 11
\* Size of the worker pool in the delete scenario.
DeletePoolSize == 12

\* -------------------------------------------------------------- the graph

\* The action graph of the end-to-end scenarios: two independent builds, a
\* deploy built from b1 and a test of that deploy.
Builds == {"b1", "b2"}
Deploys == {"d"}
Tests == {"t"}

\* build: the Build action a runtime action names in its `build` field.
BuildOf(a) == "b1"

\* Build dependencies of a Build action.
BuildDeps(b) == << >>

\* Runtime (Deploy) dependencies of a runtime action.
RuntimeDeps(a) == IF a \in Tests THEN <<"d">> ELSE << >>

\* The Deploy actions of the project the delete command runs on: the first
\* NumDeploys of these names. s2 depends on s1, the others on nothing.
DeployNames ==
  <<"s1", "s2", "s3", "s4", "s5", "s6", "s7", "s8", "s9", "s10", "s11", "s12",
    "s13", "s14">>

ProjectDeploys == SubSeq(DeployNames, 1, NumDeploys)

DeployDependencies(name) ==
  IF name = "s2" THEN {"s1"} ELSE IF name = "s3" THEN {"s2"} ELSE {}

\* ------------------------------------------------------------------ state

VARIABLES
  phase,            \* "idle" (no pass, or the pass has drained) or "solving"
  passNo,           \* number of passes submitted so far
  initial,          \* the initial task list of the current pass
  force,            \* the force flag the tasks of the initial list carry
  forceActions,     \* the names of the actions in force_actions
  nodes,            \* the keys of the solver's task map
  pending,          \* queue of tasks whose prerequisites are not satisfied
  ready,            \* queue of tasks that can start
  running,          \* the tasks a worker is executing
  results,          \* GraphResults of the current pass
  cancelled,        \* the cancellation token
  starts,           \* per key: how many times a worker started the task
  calls,            \* per key: invocations of the task's plugin handler
  resultCalls,      \* per key: invocations of the getResult handler
  mode,             \* per key: "none", "cached" (short-circuit) or "process"
  given,            \* per key: the prerequisites whose results the task got
  cache,            \* the result cache: keys with a stored successful result
  testResults,      \* per test: the result stored by the test plugin
  cacheAtSubmit,    \* the result cache as it was when the pass was submitted
  thrown,           \* the tasks of the pass whose handler threw
  poolSize,         \* the size N of the worker pool
  skipRuntimeDependencies, \* the skip-dependencies option of the command
  dependantsFirst,  \* DeleteDeployTask.dependantsFirst of the command's tasks
  deleteDeployNames, \* DeleteDeployTask.deleteDeployNames of the command's tasks
  deleteOpts        \* the names and options the delete command was given

solverVars ==
  <<phase, passNo, initial, force, forceActions, nodes, pending, ready, running,
    results, cancelled, starts, calls, resultCalls, mode, given, cache,
    testResults, cacheAtSubmit, thrown, poolSize, skipRuntimeDependencies, dependantsFirst,
    deleteDeployNames, deleteOpts>>

VARIABLES
  watch,            \* ProcessParams.watch
  persistent,       \* garden.persistent
  footerLog,        \* whether a footerLog was passed to processActions
  skipTests,        \* the skip-tests option of the dev command
  localModeServiceNames, \* the deploys the dev command runs in local mode
  paPc,             \* where processActions is
  passes,           \* the garden.processTasks calls that have not returned
  handlers,         \* the event handler invocations, by order of the events
  nEvents,          \* number of events served so far
  taskErrorDuringLastProcess,
  restartRequired,  \* the local variable of processActions
  returned,         \* ProcessResults.restartRequired, once returned
  endedBy,          \* what resolved the promise of the loop
  commandResult     \* the ProcessResults of the command and what handleProcessResults made of them

VARIABLES
  callArgs,         \* the arguments of a call of one of the functions of the config layer
  callResult        \* what the call returned or threw, once it has returned

callVars == <<callArgs, callResult>>

watchVars ==
  <<watch, persistent, footerLog, skipTests, localModeServiceNames, paPc, passes, handlers, nEvents,
    taskErrorDuringLastProcess, restartRequired, returned, endedBy, commandResult, callVars>>

vars == <<solverVars, watchVars>>

\* ------------------------------------------------------------------ tasks

Key(type, name) == [type |-> type, name |-> name]

StatusTypes == {"BuildStatus", "DeployStatus"}
ProcessTypes == {"Build", "Deploy", "Test"}

Keys ==
  {Key("BuildStatus", b) : b \in Builds} \cup {Key("Build", b) : b \in Builds}
    \cup {Key("DeployStatus", d) : d \in Deploys} \cup {Key("Deploy", d) : d \in Deploys}
    \cup {Key("Test", t) : t \in Tests}

\* The tasks a command can put in its initial task list.
Requestable == {k \in Keys : k.type \in ProcessTypes}

DeleteKeys == {Key("delete-service", ProjectDeploys[i]) : i \in 1..NumDeploys}

AllKeys == Keys \cup DeleteKeys

\* The status task whose result decides whether a Build or Deploy task
\* short-circuits.
StatusKey(k) ==
  IF k.type = "Build" THEN Key("BuildStatus", k.name) ELSE Key("DeployStatus", k.name)

MapSeq(s, F(_)) == [i \in 1..Len(s) |-> F(s[i])]

Range(s) == {s[i] : i \in 1..Len(s)}

BuildTaskOf(b) == Key("Build", b)
DeployTaskOf(d) == Key("Deploy", d)
DeployStatusTaskOf(d) == Key("DeployStatus", d)
BuildStatusTaskOf(b) == Key("BuildStatus", b)

DeleteTaskOf(name) == Key("delete-service", name)

\* graph.getDependants({kind: "deploy", name, recursive: false, filter}): the
\* deploys that depend directly on `name` and pass the filter (their name is
\* in `names`), in graph order.
getDependants(name, names) ==
  SelectSeq(ProjectDeploys, LAMBDA x : name \in DeployDependencies(x) /\ x \in Range(names))

\* A DeleteDeployTask that never waits for the delete tasks of its dependants.
resolveDependenciesNone(name) == << >>

\* DeleteDeployTask.resolveDependencies: nothing unless dependantsFirst; else
\* the delete tasks of the direct dependants named in deleteDeployNames.
resolveDependencies(name) ==
  IF ~dependantsFirst THEN << >>
  ELSE MapSeq(getDependants(name, deleteDeployNames), DeleteTaskOf)

\* getServiceStatusDeps: a status task for every Deploy dependency.
getServiceStatusDeps(deploy) == MapSeq(deploy, DeployStatusTaskOf)

\* getDeployDeps: a Deploy task for every Deploy dependency.
getDeployDeps(deploy) == MapSeq(deploy, DeployTaskOf)

\* The declared prerequisite tasks of a task, in the order they are requested.
\* With skip-dependencies the Deploy prerequisites of a Test task are replaced
\* by their status tasks.
Prerequisites(k) ==
  CASE k.type = "BuildStatus" -> MapSeq(BuildDeps(k.name), BuildStatusTaskOf)
    [] k.type = "Build" ->
         <<Key("BuildStatus", k.name)>> \o MapSeq(BuildDeps(k.name), BuildTaskOf)
    [] k.type = "DeployStatus" ->
         <<Key("BuildStatus", BuildOf(k.name))>>
           \o MapSeq(RuntimeDeps(k.name), DeployStatusTaskOf)
    [] k.type = "Deploy" ->
         <<Key("Build", BuildOf(k.name))>>
           \o MapSeq(RuntimeDeps(k.name), DeployTaskOf)
           \o <<Key("DeployStatus", k.name)>>
    [] k.type = "Test" ->
         <<Key("Build", BuildOf(k.name))>>
           \o (IF skipRuntimeDependencies
               THEN getServiceStatusDeps(RuntimeDeps(k.name))
               ELSE getDeployDeps(RuntimeDeps(k.name)))
    [] k.type = "delete-service" -> resolveDependencies(k.name)
    [] OTHER -> << >>

Deps(k) == Range(Prerequisites(k))

\* Every request for a task that the closure of `list` makes: each task of
\* the list, followed by the requests of its prerequisites.
RECURSIVE Requests(_)
Requests(list) ==
  IF list = << >> THEN << >>
  ELSE <<Head(list)>> \o Requests(Prerequisites(Head(list))) \o Requests(Tail(list))

\* The transitive dependants of k among the tasks of `set`.
RECURSIVE DependantsIn(_, _)
DependantsIn(ks, set) ==
  LET next == {t \in set \ ks : Deps(t) \cap ks # {}}
  IN IF next = {} THEN ks ELSE DependantsIn(ks \cup next, set)

\* ---------------------------------------------------------------- results

NoResult == [tag |-> "none", error |-> FALSE, state |-> "na"]
Null == [tag |-> "null", error |-> FALSE, state |-> "na"]
Result(err, st) == [tag |-> "result", error |-> err, state |-> st]

Results ==
  {NoResult, Null} \cup {Result(e, s) : e \in BOOLEAN, s \in {"ready", "outdated", "na"}}

\* --------------------------------------------------------------- TestTask

\* What the getResult handler of a Test returns: nothing, or a result whose
\* detail is missing ("none"), passed or failed.
TestNull == [tag |-> "null", detail |-> "none"]
TestResult(d) == [tag |-> "result", detail |-> d]
TestDetails == {"none", "passed", "failed"}
TestResults == {TestNull} \cup {TestResult(d) : d \in TestDetails}

\* TestTask.getTestResult: a forced task returns null without asking the
\* router; the second component tells whether the getResult handler was called.
getTestResult(taskForce, stored) ==
  IF taskForce THEN <<TestNull, FALSE>> ELSE <<stored, TRUE>>

\* A getStatus that returns any stored result, passed or not.
getStatusAnyResult(taskForce, stored) == getTestResult(taskForce, stored)[1]

\* TestTask.getStatus: the stored result when its detail says success, else null.
getStatus(taskForce, stored) ==
  LET result == getTestResult(taskForce, stored)[1]
      testResult == IF result.tag = "null" THEN "none" ELSE result.detail
  IN IF testResult # "none" /\ testResult = "passed" THEN result ELSE TestNull

\* ----------------------------------------------------------------- solver

Terminal(r) == r.tag # "none"

Succeeded(r) == r.tag = "result" /\ ~r.error

\* A solver without the lookup by key: every request adds a node.
AddTaskNoLookup(st, k) == [st EXCEPT !.nodes = @ \cup {k}, !.queue = Append(@, k)]

\* Deduplication: a requested task is looked up in the task map by its key;
\* when it is present and not terminal the request is attached to it.
AddTask(st, k) ==
  IF k \in st.nodes /\ ~Terminal(st.results[k])
  THEN st
  ELSE [st EXCEPT !.nodes = @ \cup {k}, !.queue = Append(@, k)]

RECURSIVE AddTasks(_, _)
AddTasks(st, reqs) ==
  IF reqs = << >> THEN st ELSE AddTasks(AddTask(st, Head(reqs)), Tail(reqs))

\* A solver that releases a pending task as soon as one prerequisite succeeded.
SatisfiedByOne(k, res) == Deps(k) = {} \/ \E d \in Deps(k) : Succeeded(res[d])

\* A pending task is released when every prerequisite has a successful result.
Satisfied(k, res) == \A d \in Deps(k) : Succeeded(res[d])

\* A delete task type that allows one more task than DeleteDeployTask does.
concurrencyLimitPlusOne == 10 + 1

\* DeleteDeployTask.concurrencyLimit
concurrencyLimit == 10

\* The per-type concurrency limit: a task type may override the pool size.
ConcurrencyLimit(type) == IF type = "delete-service" THEN concurrencyLimit ELSE poolSize

RunningOfType(type) == Len(SelectSeq(running, LAMBDA k : k.type = type))

CanStart(k) ==
  /\ Len(running) < poolSize
  /\ RunningOfType(k.type) < ConcurrencyLimit(k.type)

\* force: the task's own flag. Only the tasks of the initial list carry it.
TaskForce(k) == force /\ k \in Range(initial)

\* A task is forced by its own flag or by its action being in force_actions.
IsForced(k) == TaskForce(k) \/ k.name \in forceActions

\* A process step that short-circuits on a ready status even when forced.
ShortCircuitForced(k, res) == res[StatusKey(k)].state = "ready"

\* Build and Deploy short-circuit when the status is ready and not forced.
ShortCircuit(k, res) == res[StatusKey(k)].state = "ready" /\ ~IsForced(k)

Drained(p, r, x) == p = << >> /\ r = << >> /\ x = << >>

RemoveAt(s, i) == SubSeq(s, 1, i - 1) \o SubSeq(s, i + 1, Len(s))

ZeroCounts == [k \in AllKeys |-> 0]

\* No delete command.
NoDeleteOpts == [names |-> << >>, dependantsFirst |-> FALSE, withDependants |-> FALSE]

\* The actions a sources-changed event can name.
EventActions == Builds \cup Deploys \cup Tests

NoCalls == [a \in EventActions |-> 0]

\* A handler invocation: the event, where the handler is, how often it called
\* the change handler for each action, whether a change handler threw, the
\* tasks it passed to garden.processTasks, whether the event came after a task
\* error, and how the re-parse of a config handler ended. Of its pass: the
\* place of its taskGraphProcessing among those of the loop, whether a
\* taskError came after it, and at its end whether taskGraphComplete was
\* emitted, whether waiting() was called, the passes still in progress and
\* whether a taskError had come since the latest taskGraphProcessing.
NoHandler ==
  [kind |-> "none", refs |-> {}, pc |-> "idle", calls |-> NoCalls, threw |-> FALSE,
   scheduled |-> FALSE, tasks |-> << >>, afterError |-> FALSE, outcome |-> "none",
   complete |-> FALSE, waiting |-> FALSE, inProgress |-> {},
   began |-> 0, erred |-> FALSE, errorSince |-> FALSE]

\* No command has returned yet.
NoCommandResult == [stage |-> "none"]

\* No function of the config layer has been called, or the call has not returned.
NoCall == [fn |-> "none"]

NoCallMade ==
  /\ callArgs = NoCall
  /\ callResult = NoCall

\* No processActions call.
WatchIdle ==
  /\ watch = FALSE
  /\ persistent = FALSE
  /\ footerLog = FALSE
  /\ skipTests = FALSE
  /\ localModeServiceNames = {}
  /\ paPc = "none"
  /\ passes = {}
  /\ handlers = [i \in 1..MaxEvents |-> NoHandler]
  /\ nEvents = 0
  /\ taskErrorDuringLastProcess = FALSE
  /\ restartRequired = "undeclared"
  /\ returned = "none"
  /\ endedBy = "none"
  /\ commandResult = NoCommandResult

SolverInit ==
  /\ phase = "idle"
  /\ passNo = 0
  /\ initial = << >>
  /\ force = FALSE
  /\ forceActions = {}
  /\ nodes = {}
  /\ pending = << >>
  /\ ready = << >>
  /\ running = << >>
  /\ results = [k \in AllKeys |-> NoResult]
  /\ cancelled = FALSE
  /\ starts = ZeroCounts
  /\ calls = ZeroCounts
  /\ resultCalls = ZeroCounts
  /\ mode = [k \in AllKeys |-> "none"]
  /\ given = [k \in AllKeys |-> {}]
  /\ cache = {}
  /\ testResults \in [Tests -> {TestNull, TestResult("none")}]
  /\ cacheAtSubmit = {}
  /\ thrown = {}
  /\ poolSize = PoolSize
  /\ skipRuntimeDependencies \in BOOLEAN
  /\ dependantsFirst = FALSE
  /\ deleteDeployNames = << >>
  /\ deleteOpts = NoDeleteOpts

\* garden.processTasks: a pass over the closure of an initial task list.
Submit(list, f, fa) ==
  /\ passNo < MaxPasses
  /\ LET fresh == [k \in AllKeys |-> NoResult]
         st == AddTasks([nodes |-> {}, queue |-> << >>, results |-> fresh],
                        Requests(list))
     IN /\ nodes' = st.nodes
        /\ pending' = SelectSeq(st.queue, LAMBDA k : ~Satisfied(k, fresh))
        /\ ready' = SelectSeq(st.queue, LAMBDA k : Satisfied(k, fresh))
        /\ results' = fresh
  /\ phase' = "solving"
  /\ passNo' = passNo + 1
  /\ initial' = list
  /\ force' = f
  /\ forceActions' = fa
  /\ running' = << >>
  /\ cancelled' = FALSE
  /\ starts' = ZeroCounts
  /\ calls' = ZeroCounts
  /\ resultCalls' = ZeroCounts
  /\ mode' = [k \in AllKeys |-> "none"]
  /\ given' = [k \in AllKeys |-> {}]
  /\ cacheAtSubmit' = cache
  /\ thrown' = {}
  /\ UNCHANGED <<cache, testResults, poolSize, skipRuntimeDependencies, dependantsFirst, deleteDeployNames, deleteOpts>>
  /\ UNCHANGED watchVars

\* The initial task lists of the commands: one Build, Deploy or Test task per
\* requested action (cloudEventHandlers), the builds of the whole graph, the
\* deploys and tests of the dev command, and the flattened lists of two change
\* handlers that both return the Deploy task of d.
InitialLists ==
  {<<Key("Build", b)>> : b \in Builds}
    \cup {<<Key("Deploy", d)>> : d \in Deploys}
    \cup {<<Key("Test", t)>> : t \in Tests}
    \cup {<<Key("Build", "b1"), Key("Build", "b2")>>,
          <<Key("Deploy", "d"), Key("Test", "t")>>,
          <<Key("Deploy", "d"), Key("Deploy", "d")>>}

\* The commands run with skip-dependencies: deploy d and test t.
SkipLists == {<<Key("Deploy", "d")>>, <<Key("Test", "t")>>}

SubmitTasks ==
  /\ phase = "idle"
  /\ \E list \in (IF skipRuntimeDependencies THEN SkipLists ELSE InitialLists),
        f \in BOOLEAN, fa \in {{}, Builds} : Submit(list, f, fa)

\* A worker pulls the first task of `ready` that the limits allow and starts it.
StartTask ==
  /\ phase = "solving"
  /\ ~cancelled
  /\ \E i \in 1..Len(ready) :
       LET k == ready[i] IN
       /\ CanStart(k)
       /\ \A j \in 1..(i - 1) : ~CanStart(ready[j])
       /\ ready' = RemoveAt(ready, i)
       /\ running' = Append(running, k)
       /\ starts' = [starts EXCEPT ![k] = @ + 1]
       /\ given' = [given EXCEPT ![k] = {d \in Deps(k) : Terminal(results[d])}]
       /\ IF k.type = "Test"
          THEN LET got == getTestResult(TaskForce(k), testResults[k.name])
                   status == getStatus(TaskForce(k), testResults[k.name])
               IN /\ resultCalls' = [resultCalls EXCEPT ![k] = @ + (IF got[2] THEN 1 ELSE 0)]
                  /\ mode' = [mode EXCEPT ![k] = IF status # TestNull THEN "cached" ELSE "process"]
          ELSE /\ resultCalls' = resultCalls
               /\ mode' = [mode EXCEPT ![k] =
                    IF k.type \in {"Build", "Deploy"} /\ ShortCircuit(k, results)
                    THEN "cached" ELSE "process"]
       /\ calls' = [calls EXCEPT ![k] = @ + (IF mode'[k] = "process" THEN 1 ELSE 0)]
  /\ UNCHANGED <<phase, passNo, initial, force, forceActions, nodes, pending,
                 results, cancelled, cache, testResults, cacheAtSubmit, thrown, poolSize, skipRuntimeDependencies, dependantsFirst,
                 deleteDeployNames, deleteOpts>>
  /\ UNCHANGED watchVars

\* The result a task that ends without an error reports.
Outcome(k) ==
  CASE k.type \in StatusTypes ->
         Result(FALSE, IF Key(IF k.type = "BuildStatus" THEN "Build" ELSE "Deploy", k.name)
                            \in cache THEN "ready" ELSE "outdated")
    [] OTHER -> Result(FALSE, "ready")

\* A solver that keeps the result of a task that finishes after cancellation.
RecordedAfterCancel(out) == out

\* The result recorded for a task that finishes: after a cancel the result of
\* a running task is discarded and the task surfaces as aborted.
Recorded(out) == IF cancelled THEN Null ELSE out

\* A solver that aborts every pending task when one task fails.
AbortedByAny(k) == Range(pending)

\* A solver that leaves the dependants of a failed task in `pending`.
AbortedByNone(k) == {}

\* The pending tasks a failure of k aborts: its transitive dependants.
AbortedBy(k) == DependantsIn({k}, Range(pending) \cup {k}) \ {k}

\* A cancellation that leaves the ready queue alone.
AbortablePending == Range(pending)

\* The tasks a cancel aborts: every pending and every ready task.
Abortable == Range(pending) \cup Range(ready)

\* A running task ends without an error: its result is marked and the pending
\* tasks whose prerequisites are now satisfied are released. After a cancel the
\* result is discarded.
CompleteTask ==
  /\ phase = "solving"
  /\ \E i \in 1..Len(running) :
       LET k == running[i]
           rest == RemoveAt(running, i)
           res == [results EXCEPT ![k] = Recorded(Outcome(k))]
           freed == SelectSeq(pending, LAMBDA t : Satisfied(t, res))
       IN /\ running' = rest
          /\ results' = res
          /\ pending' = SelectSeq(pending, LAMBDA t : ~Satisfied(t, res))
          /\ ready' = ready \o freed
          /\ cache' = IF ~cancelled /\ k.type \in {"Build", "Deploy"} THEN cache \cup {k} ELSE cache
          /\ testResults' =
               IF k.type = "Test" /\ mode[k] = "process"
               THEN [testResults EXCEPT ![k.name] = TestResult("passed")]
               ELSE testResults
          /\ phase' = IF Drained(pending', ready', rest) THEN "idle" ELSE "solving"
  /\ UNCHANGED <<passNo, initial, force, forceActions, nodes, cancelled, starts,
                 calls, resultCalls, mode, given, cacheAtSubmit, thrown, poolSize, skipRuntimeDependencies,
                 dependantsFirst, deleteDeployNames, deleteOpts>>
  /\ UNCHANGED watchVars

\* The handlers that throw in some run: every handler of the build, deploy and
\* test scenario, and the delete handlers of s1 and s2.
MayThrow(k) == k.type # "delete-service" \/ k.name \in {"s1", "s2"}

\* The handler of a running task throws: the result carries the error and the
\* transitive dependants are aborted (null). After a cancel the result is
\* discarded.
FailTask ==
  /\ phase = "solving"
  /\ \E i \in 1..Len(running) :
       LET k == running[i]
           rest == RemoveAt(running, i)
           aborted == AbortedBy(k)
       IN /\ mode[k] = "process"
          /\ MayThrow(k)
          /\ running' = rest
          /\ thrown' = thrown \cup {k}
          /\ results' =
               [t \in AllKeys |->
                 IF t = k THEN Recorded(Result(TRUE, "na"))
                 ELSE IF t \in aborted THEN Null ELSE results[t]]
          /\ pending' = SelectSeq(pending, LAMBDA t : t \notin aborted)
          /\ \E stored \in BOOLEAN :
               testResults' =
                 IF k.type = "Test" /\ stored
                 THEN [testResults EXCEPT ![k.name] = TestResult("failed")]
                 ELSE testResults
          /\ phase' = IF Drained(pending', ready, rest) THEN "idle" ELSE "solving"
  /\ UNCHANGED <<passNo, initial, force, forceActions, nodes, ready, cancelled,
                 starts, calls, resultCalls, mode, given, cache, cacheAtSubmit,
                 poolSize, skipRuntimeDependencies, dependantsFirst, deleteDeployNames, deleteOpts>>
  /\ UNCHANGED watchVars

\* The cancellation token is set: every pending and ready task is aborted,
\* running tasks are left to finish.
Cancel ==
  /\ phase = "solving"
  /\ ~cancelled
  /\ cancelled' = TRUE
  /\ results' = [t \in AllKeys |-> IF t \in Abortable THEN Null ELSE results[t]]
  /\ pending' = << >>
  /\ ready' = << >>
  /\ phase' = IF running = << >> THEN "idle" ELSE "solving"
  /\ UNCHANGED <<passNo, initial, force, forceActions, nodes, running, starts,
                 calls, resultCalls, mode, given, cache, testResults, cacheAtSubmit,
                 thrown, poolSize, skipRuntimeDependencies, dependantsFirst, deleteDeployNames, deleteOpts>>
  /\ UNCHANGED watchVars

\* ---------------------------------------------------------- delete deploy

\* uniqByName: the first occurrence of every name, in order.
RECURSIVE uniqByName(_)
uniqByName(names) ==
  IF names = << >> THEN << >>
  ELSE LET rest == uniqByName(SubSeq(names, 1, Len(names) - 1))
           last == names[Len(names)]
       IN IF last \in Range(rest) THEN rest ELSE Append(rest, last)

\* The deploys that depend on one of `names`, recursively.
RECURSIVE RecursiveDependants(_)
RecursiveDependants(names) ==
  LET next == {x \in Range(ProjectDeploys) \ names : DeployDependencies(x) \cap names # {}}
  IN IF next = {} THEN names ELSE RecursiveDependants(names \cup next)

\* graph.getDependants({kind: "deploy", name, recursive: true}), in graph order.
getDependantsRecursive(name) ==
  SelectSeq(ProjectDeploys, LAMBDA x : x \in RecursiveDependants({name}) \ {name})

\* actions.flatMap((s) => graph.getDependants({name: s.name, recursive: true}))
RECURSIVE flatMapDependants(_)
flatMapDependants(names) ==
  IF names = << >> THEN << >>
  ELSE getDependantsRecursive(Head(names)) \o flatMapDependants(Tail(names))

\* The names the user can give: none (every deploy of the project) or a list.
DeleteArgs == {<< >>, <<"s1">>, <<"s2">>, <<"s1", "s2">>}

\* graph.getDeploys({names}): every deploy when no name is given.
getDeploys(names) ==
  IF names = << >> THEN ProjectDeploys
  ELSE SelectSeq(ProjectDeploys, LAMBDA x : x \in Range(names))

\* DeleteDeployCommand.action up to the call of garden.processTasks: the
\* deploys to delete and one DeleteDeployTask for each.
DeleteDeployCommand ==
  /\ phase = "idle"
  /\ passNo = 0
  /\ \E names \in DeleteArgs, optDependantsFirst \in BOOLEAN, withDependants \in BOOLEAN :
       LET named == getDeploys(names)
           actions ==
             IF withDependants
             THEN uniqByName(named \o flatMapDependants(named))
             ELSE named
       IN /\ actions # << >>
          /\ dependantsFirst' = (optDependantsFirst \/ withDependants)
          /\ deleteDeployNames' = actions
          /\ deleteOpts' = [names |-> names, dependantsFirst |-> optDependantsFirst,
                            withDependants |-> withDependants]
          /\ initial' = MapSeq(actions, DeleteTaskOf)
  /\ phase' = "command"
  /\ UNCHANGED <<passNo, force, forceActions, nodes, pending, ready, running, results,
                 cancelled, starts, calls, resultCalls, mode, given, cache, testResults,
                 cacheAtSubmit, thrown, poolSize, skipRuntimeDependencies>>
  /\ UNCHANGED watchVars

\* garden.processTasks(tasks) of the delete command.
ProcessDeleteTasks ==
  /\ phase = "command"
  /\ Submit(initial, FALSE, {})

DeleteInit ==
  /\ WatchIdle
  /\ NoCallMade
  /\ phase = "idle"
  /\ passNo = 0
  /\ initial = << >>
  /\ force = FALSE
  /\ forceActions = {}
  /\ nodes = {}
  /\ pending = << >>
  /\ ready = << >>
  /\ running = << >>
  /\ results = [k \in AllKeys |-> NoResult]
  /\ cancelled = FALSE
  /\ starts = ZeroCounts
  /\ calls = ZeroCounts
  /\ resultCalls = ZeroCounts
  /\ mode = [k \in AllKeys |-> "none"]
  /\ given = [k \in AllKeys |-> {}]
  /\ cache = {}
  /\ testResults = [t \in Tests |-> TestNull]
  /\ cacheAtSubmit = {}
  /\ thrown = {}
  /\ poolSize = DeletePoolSize
  /\ skipRuntimeDependencies = FALSE
  /\ dependantsFirst = FALSE
  /\ deleteDeployNames = << >>
  /\ deleteOpts = NoDeleteOpts

DeleteNext ==
  \/ DeleteDeployCommand
  \/ ProcessDeleteTasks
  \/ StartTask
  \/ CompleteTask
  \/ FailTask

DeleteSpec == DeleteInit /\ [][DeleteNext]_vars

Init == SolverInit /\ WatchIdle /\ NoCallMade

Next ==
  \/ SubmitTasks
  \/ StartTask
  \/ CompleteTask
  \/ FailTask
  \/ Cancel

Spec == Init /\ [][Next]_vars

\* The scheduling of a pass: a worker takes a ready task whenever the limits
\* allow one to start, and every handler that was started returns or throws.
Fairness ==
  /\ WF_vars(StartTask)
  /\ WF_vars(CompleteTask \/ FailTask)

FairSpec == Init /\ [][Next]_vars /\ Fairness


\* ---------------------------------------------------------- processActions

\* The actions of the command (deploy d) and their recursive dependencies:
\* the keys of actionsByRef.
commandActions == {"d"}

\* graph.getDependenciesForMany({refs, recursive: true})
RECURSIVE getDependenciesForMany(_)
getDependenciesForMany(refs) ==
  LET direct == UNION {({BuildOf(a)} \cup Range(RuntimeDeps(a))) : a \in refs \ Builds}
                  \cup UNION {Range(BuildDeps(b)) : b \in refs \cap Builds}
  IN IF direct \subseteq refs THEN refs ELSE getDependenciesForMany(refs \cup direct)

\* A loop that watches the actions of the command only.
actionsToWatchCommandOnly == commandActions

actionsToWatch == getDependenciesForMany(commandActions)

\* The order in which the graph lists actions.
ActionOrder == <<"b1", "b2", "d", "t">>

\* The deploys that depend, recursively, on an action (for a module: the
\* deploys built from it).
dependantDeploys(a) == IF a \in Builds THEN SelectSeq(<<"d">>, LAMBDA x : BuildOf(x) = a) ELSE << >>

\* The tests of an action's module and of the modules that depend on it.
dependantTests(a) ==
  SelectSeq(<<"t">>, LAMBDA x : a = x \/ a = BuildOf(x) \/ a \in Range(RuntimeDeps(x)))

\* services.map((s) => s.name).filter((name) => !localModeServiceNames.includes(name))
devModeNames(services, localNames) == {x \in services : x \notin localNames}

\* dev: the deploys of the command that are not in local mode.
devModeServiceNames == devModeNames(commandActions, localModeServiceNames)

\* A parameter the caller did not pass.
Undefined == [defined |-> FALSE, names |-> {}]

\* A parameter the caller passed.
Defined(names) == [defined |-> TRUE, names |-> names]

\* The config graph of the project: none of its actions is disabled.
ProjectGraph == [disabled |-> {}]

\* getModuleWatchTasks: a forced Deploy task for every dependant deploy that is
\* not disabled, watched and not in dev mode. devModeDeployNames is undefined
\* when the caller did not pass it: the filter then throws (TypeError) on the
\* first deploy that is enabled and watched.
getModuleWatchTasks(graph, module, servicesWatched, devModeDeployNames) ==
  LET deploy == dependantDeploys(module)
      reached == SelectSeq(deploy, LAMBDA x : x \notin graph.disabled /\ x \in servicesWatched)
  IN IF ~devModeDeployNames.defined /\ reached # << >>
     THEN [threw |-> TRUE, tasks |-> << >>]
     ELSE [threw |-> FALSE,
           tasks |-> uniqByName(MapSeq(
                       SelectSeq(reached, LAMBDA x : x \notin devModeDeployNames.names),
                       DeployTaskOf))]

TestTaskOf(t) == Key("Test", t)

\* getDevCommandWatchTasks: the watch tasks of the module and, unless tests are
\* skipped, the tests of the module and its dependants. It passes the dev-mode
\* names as devModeServiceNames, a property getModuleWatchTasks does not read,
\* so devModeDeployNames is undefined there.
getDevCommandWatchTasks(module) ==
  LET watched == getModuleWatchTasks(ProjectGraph, module, devModeServiceNames, Undefined)
  IN IF watched.threw THEN watched
     ELSE [threw |-> FALSE,
           tasks |-> watched.tasks \o
                       (IF skipTests THEN << >> ELSE MapSeq(dependantTests(module), TestTaskOf))]

\* The change handler the dev command gives to processActions.
changeHandler(a) == getDevCommandWatchTasks(a)

\* flatten(Bluebird.map(changedActions, changeHandler))
RECURSIVE flattenTasks(_)
flattenTasks(changedActions) ==
  IF changedActions = << >> THEN << >>
  ELSE changeHandler(Head(changedActions)).tasks \o flattenTasks(Tail(changedActions))

\* The refs a sources-changed event carries.
EventRefs == {{"b1"}, {"b2"}, {"b1", "d"}, {"b2", "t"}}

RequestKinds == {"buildRequested", "deployRequested", "testRequested", "taskRequested"}

ConfigKinds ==
  {"projectConfigChanged", "configAdded", "configRemoved", "actionConfigChanged"}

\* processActions has been called and awaits garden.processTasks(initialTasks).
WatchInit ==
  /\ watch \in BOOLEAN
  /\ persistent \in BOOLEAN
  /\ footerLog \in BOOLEAN
  /\ skipTests \in (IF watch THEN BOOLEAN ELSE {FALSE})
  /\ localModeServiceNames \in (IF watch THEN {{}, {"d"}} ELSE {{}})
  /\ paPc = "initial"
  /\ passes = {0}
  /\ handlers = [i \in 1..MaxEvents |-> NoHandler]
  /\ nEvents = 0
  /\ taskErrorDuringLastProcess = FALSE
  /\ restartRequired = "undeclared"
  /\ returned = "none"
  /\ endedBy = "none"
  /\ commandResult = NoCommandResult

\* The initial garden.processTasks returns; processActions returns, waits for
\* _restart or _exit (persistent), or starts the watcher, subscribes its
\* handlers and waits.
InitialPassEnds ==
  /\ paPc = "initial"
  /\ passes' = passes \ {0}
  /\ IF ~watch /\ ~persistent
     THEN paPc' = "returned" /\ returned' = FALSE /\ UNCHANGED restartRequired
     ELSE IF ~watch /\ persistent
     THEN paPc' = "persistentWait" /\ UNCHANGED <<returned, restartRequired>>
     ELSE paPc' = "watching" /\ restartRequired' = TRUE /\ UNCHANGED returned
  /\ UNCHANGED <<watch, persistent, footerLog, skipTests, localModeServiceNames, handlers, nEvents,
                 taskErrorDuringLastProcess>>
  /\ UNCHANGED endedBy
  /\ UNCHANGED <<solverVars, commandResult, callVars>>

Subscribed == paPc \in {"watching", "resolved"}

\* The loop waits on its promise. An event or a message of the bus is a task of
\* the event loop of its own: once the promise is resolved, processActions
\* resumes and returns before the next one is taken.
Waiting == paPc = "watching"

\* An event arrives whose handler first awaits something: the graph refresh
\* (sources changed, requests) or validateConfigChange (config events).
Serve(kind, refs) ==
  /\ Waiting
  /\ nEvents < MaxEvents
  /\ nEvents' = nEvents + 1
  /\ handlers' = [handlers EXCEPT ![nEvents + 1] =
                    [NoHandler EXCEPT
                       !.kind = kind, !.refs = refs,
                       !.afterError = taskErrorDuringLastProcess,
                       !.pc = IF kind \in ConfigKinds THEN "validate" ELSE "refresh"]]
  /\ UNCHANGED <<watch, persistent, footerLog, skipTests, localModeServiceNames, paPc, passes,
                 taskErrorDuringLastProcess, restartRequired, returned>>
  /\ UNCHANGED endedBy
  /\ UNCHANGED <<solverVars, commandResult, callVars>>

ActionSourcesChanged == \E refs \in EventRefs : Serve("actionSourcesChanged", refs)

Requested == \E kind \in RequestKinds : Serve(kind, {})

ConfigChanged == \E kind \in ConfigKinds : Serve(kind, {})

\* The number of taskGraphProcessing events the loop has seen.
PassesBegun == Cardinality({j \in 1..MaxEvents : handlers[j].scheduled})

\* Whether a taskError was emitted after the latest taskGraphProcessing.
ErrorSinceProcessing ==
  \E j \in 1..MaxEvents :
    /\ handlers[j].scheduled
    /\ handlers[j].began = PassesBegun
    /\ handlers[j].erred

\* garden.processTasks is called by handler i: the solver emits
\* taskGraphProcessing, which resets the error flag when the handler of
\* lines 102-105 was subscribed.
BeginPass(i) ==
  /\ passes' = passes \cup {i}
  /\ taskErrorDuringLastProcess' =
       IF watch /\ footerLog THEN FALSE ELSE taskErrorDuringLastProcess

\* The graph refresh of an actionSourcesChanged handler returns: without a
\* changed ref in the watched set the handler returns, else it asks the change
\* handler for the tasks and calls garden.processTasks.
SourcesRefreshed ==
  \E i \in 1..MaxEvents :
    /\ handlers[i].kind = "actionSourcesChanged"
    /\ handlers[i].pc = "refresh"
    /\ LET changedActionRefs == handlers[i].refs \cap actionsToWatch
           changedActions == SelectSeq(ActionOrder, LAMBDA a : a \in changedActionRefs)
           called == [a \in EventActions |->
                       handlers[i].calls[a] + (IF a \in changedActionRefs THEN 1 ELSE 0)]
       IN
       IF changedActionRefs = {}
       THEN /\ handlers' = [handlers EXCEPT ![i].pc = "done"]
            /\ UNCHANGED <<passes, taskErrorDuringLastProcess>>
       ELSE IF \E a \in changedActionRefs : changeHandler(a).threw
       THEN /\ handlers' = [handlers EXCEPT ![i].pc = "done", ![i].calls = called,
                                             ![i].threw = TRUE]
            /\ UNCHANGED <<passes, taskErrorDuringLastProcess>>
       ELSE /\ handlers' = [handlers EXCEPT ![i].pc = "process", ![i].calls = called,
                                             ![i].scheduled = TRUE,
                                             ![i].began = PassesBegun + 1,
                                             ![i].tasks = flattenTasks(changedActions)]
            /\ BeginPass(i)
    /\ UNCHANGED <<watch, persistent, footerLog, skipTests, localModeServiceNames, paPc, nEvents, restartRequired, returned>>
    /\ UNCHANGED endedBy
    /\ UNCHANGED <<solverVars, commandResult, callVars>>

\* A request handler without the try/catch: the error ends the loop.
RequestRefreshedUncaught ==
  \E i \in 1..MaxEvents, thrown_ \in BOOLEAN :
    /\ handlers[i].kind \in RequestKinds
    /\ handlers[i].pc = "refresh"
    /\ IF thrown_
       THEN /\ handlers' = [handlers EXCEPT ![i].pc = "done", ![i].threw = TRUE]
            /\ paPc' = "returned"
            /\ returned' = FALSE
            /\ UNCHANGED <<passes, taskErrorDuringLastProcess>>
       ELSE /\ handlers' = [handlers EXCEPT ![i].pc = "process", ![i].scheduled = TRUE,
                                             ![i].began = PassesBegun + 1]
            /\ BeginPass(i)
            /\ UNCHANGED <<paPc, returned>>
    /\ UNCHANGED <<watch, persistent, footerLog, skipTests, localModeServiceNames, nEvents, restartRequired>>
    /\ UNCHANGED endedBy
    /\ UNCHANGED <<solverVars, commandResult, callVars>>

\* The graph refresh and task construction of a request handler return and
\* garden.processTasks is called, or they throw and the error is logged.
RequestRefreshed ==
  \E i \in 1..MaxEvents, thrown_ \in BOOLEAN :
    /\ handlers[i].kind \in RequestKinds
    /\ handlers[i].pc = "refresh"
    /\ IF thrown_
       THEN /\ handlers' = [handlers EXCEPT ![i].pc = "done", ![i].threw = TRUE]
            /\ UNCHANGED <<passes, taskErrorDuringLastProcess>>
       ELSE /\ handlers' = [handlers EXCEPT ![i].pc = "process", ![i].scheduled = TRUE,
                                             ![i].began = PassesBegun + 1]
            /\ BeginPass(i)
    /\ UNCHANGED <<watch, persistent, footerLog, skipTests, localModeServiceNames, paPc, nEvents, restartRequired, returned>>
    /\ UNCHANGED endedBy
    /\ UNCHANGED <<solverVars, commandResult, callVars>>

\* A loop that a task error ends.
TaskErrorEndsLoop ==
  /\ Subscribed
  /\ passes # {}
  /\ taskErrorDuringLastProcess' = TRUE
  /\ paPc' = "returned"
  /\ returned' = FALSE
  /\ UNCHANGED <<watch, persistent, footerLog, skipTests, localModeServiceNames, passes, handlers, nEvents,
                 restartRequired, endedBy>>
  /\ UNCHANGED <<solverVars, commandResult, callVars>>

\* The solver emits taskError during a pass of the watch loop.
TaskError ==
  /\ Subscribed
  /\ passes # {}
  /\ taskErrorDuringLastProcess' = TRUE
  /\ handlers' = [j \in 1..MaxEvents |->
                    IF handlers[j].scheduled THEN [handlers[j] EXCEPT !.erred = TRUE]
                    ELSE handlers[j]]
  /\ UNCHANGED <<watch, persistent, footerLog, skipTests, localModeServiceNames, paPc, passes, nEvents,
                 restartRequired, returned>>
  /\ UNCHANGED endedBy
  /\ UNCHANGED <<solverVars, commandResult, callVars>>

\* A solver that emits taskGraphComplete whenever a garden.processTasks call
\* has its results.
taskGraphCompletePerCall(inProgress) == TRUE

\* The solver emits taskGraphComplete when the pool is idle: no task of any
\* garden.processTasks call is running, ready or pending.
taskGraphComplete(inProgress) == inProgress = {}

\* The garden.processTasks call of handler i returns, or (in a request
\* handler, which catches and logs it) throws. When the solver emits
\* taskGraphComplete, the handler of the loop calls waiting() unless a task
\* error was recorded.
PassEnds ==
  \E i \in passes \ {0}, thrown_ \in BOOLEAN :
    /\ thrown_ => handlers[i].kind \in RequestKinds
    /\ passes' = passes \ {i}
    /\ LET emitted == taskGraphComplete(passes \ {i}) IN
       handlers' = [handlers EXCEPT ![i].pc = "done",
                                    ![i].threw = thrown_,
                                    ![i].complete = emitted,
                                    ![i].waiting = emitted /\ ~taskErrorDuringLastProcess,
                                    ![i].inProgress = passes \ {i},
                                    ![i].errorSince = ErrorSinceProcessing]
    /\ UNCHANGED <<watch, persistent, footerLog, skipTests, localModeServiceNames, paPc, nEvents,
                   taskErrorDuringLastProcess, restartRequired, returned>>
    /\ UNCHANGED endedBy
    /\ UNCHANGED <<solverVars, commandResult, callVars>>

\* How the re-parse of the project ends: without an error, with a
\* ConfigurationError, or with another error.
ParseOutcomes == {"ok", "ConfigurationError", "Error"}

\* A validation that takes every re-parse for valid.
validateConfigChangeAlways(outcome) == TRUE

\* validateConfigChange: true without an error, false (and a log entry) on a
\* ConfigurationError; another error is thrown on.
validateConfigChange(outcome) == outcome = "ok"

\* validateConfigChange returns: true resolves the promise of the loop, a
\* ConfigurationError is logged and the loop goes on; with another error the
\* handler rejects.
ConfigValidated ==
  \E i \in 1..MaxEvents, outcome \in ParseOutcomes :
    /\ handlers[i].pc = "validate"
    /\ handlers' = [handlers EXCEPT ![i].pc = "done", ![i].outcome = outcome,
                                    ![i].threw = (outcome = "Error")]
    /\ LET resolves == validateConfigChange(outcome) /\ Waiting IN
       /\ paPc' = IF resolves THEN "resolved" ELSE paPc
       /\ endedBy' = IF resolves THEN handlers[i].kind ELSE endedBy
    /\ UNCHANGED <<watch, persistent, footerLog, skipTests, localModeServiceNames, passes, nEvents,
                   taskErrorDuringLastProcess, restartRequired, returned>>
    /\ UNCHANGED <<solverVars, commandResult, callVars>>

\* The _restart handler of the watch loop.
Restart ==
  /\ Waiting
  /\ paPc' = "resolved"
  /\ endedBy' = "_restart"
  /\ UNCHANGED <<watch, persistent, footerLog, skipTests, localModeServiceNames, passes, handlers, nEvents,
                 taskErrorDuringLastProcess, restartRequired, returned>>
  /\ UNCHANGED <<solverVars, commandResult, callVars>>

\* An _exit handler that leaves restartRequired as it is.
ExitKeepsRestart ==
  /\ Waiting
  /\ paPc' = "resolved"
  /\ endedBy' = "_exit"
  /\ UNCHANGED <<watch, persistent, footerLog, skipTests, localModeServiceNames, passes, handlers, nEvents,
                 taskErrorDuringLastProcess, returned, restartRequired>>
  /\ UNCHANGED <<solverVars, commandResult, callVars>>

\* The _exit handler of the watch loop.
Exit ==
  /\ Waiting
  /\ restartRequired' = FALSE
  /\ paPc' = "resolved"
  /\ endedBy' = "_exit"
  /\ UNCHANGED <<watch, persistent, footerLog, skipTests, localModeServiceNames, passes, handlers, nEvents,
                 taskErrorDuringLastProcess, returned>>
  /\ UNCHANGED <<solverVars, commandResult, callVars>>

\* processActions resumes after the promise of the loop and returns.
Return ==
  /\ paPc = "resolved"
  /\ paPc' = "returned"
  /\ returned' = restartRequired
  /\ UNCHANGED <<watch, persistent, footerLog, skipTests, localModeServiceNames, passes, handlers, nEvents,
                 taskErrorDuringLastProcess, restartRequired>>
  /\ UNCHANGED endedBy
  /\ UNCHANGED <<solverVars, commandResult, callVars>>

\* _restart in persistent mode without watch.
PersistentRestart ==
  /\ paPc = "persistentWait"
  /\ paPc' = "returned"
  /\ returned' = FALSE
  /\ endedBy' = "_restart"
  /\ UNCHANGED <<watch, persistent, footerLog, skipTests, localModeServiceNames, passes, handlers, nEvents,
                 taskErrorDuringLastProcess, restartRequired>>
  /\ UNCHANGED <<solverVars, commandResult, callVars>>

\* _exit in persistent mode without watch: the handler assigns
\* restartRequired, which is declared (let) only later in the function; the
\* declaration has not been reached, so either the assignment throws and the
\* promise is not resolved, or (a build that compiles let to var) it resolves.
\* The invocation of the handler is recorded with the other handlers.
PersistentExit ==
  /\ paPc = "persistentWait"
  /\ nEvents < MaxEvents
  /\ nEvents' = nEvents + 1
  /\ \E throws \in BOOLEAN :
       /\ handlers' = [handlers EXCEPT ![nEvents + 1] =
                         [NoHandler EXCEPT !.kind = "_exit", !.threw = throws, !.pc = "done"]]
       /\ IF throws
          THEN UNCHANGED <<paPc, returned, restartRequired, endedBy>>
          ELSE /\ paPc' = "returned"
               /\ returned' = FALSE
               /\ restartRequired' = FALSE
               /\ endedBy' = "_exit"
  /\ UNCHANGED <<watch, persistent, footerLog, skipTests, localModeServiceNames, passes,
                 taskErrorDuringLastProcess>>
  /\ UNCHANGED <<solverVars, commandResult, callVars>>

WatchNext ==
  \/ InitialPassEnds
  \/ ActionSourcesChanged
  \/ Requested
  \/ ConfigChanged
  \/ SourcesRefreshed
  \/ RequestRefreshed
  \/ TaskError
  \/ PassEnds
  \/ ConfigValidated
  \/ Restart
  \/ Exit
  \/ Return
  \/ PersistentRestart
  \/ PersistentExit

\* The solver variables are not used by the watch loop.
WatchSpecInit ==
  /\ SolverInit
  /\ testResults = [t \in Tests |-> TestNull]
  /\ skipRuntimeDependencies = FALSE
  /\ WatchInit
  /\ NoCallMade

WatchSpec == WatchSpecInit /\ [][WatchNext]_vars

\* ------------------------------------------------------- command results

\* A prepareProcessResult that takes every result without an error as a success.
prepareProcessResultNoError(graphResult) ==
  [aborted |-> graphResult.tag # "result",
   error |-> graphResult.error,
   success |-> ~graphResult.error]

\* prepareProcessResult: the metadata a command reports for a graph result;
\* !graphResult holds for null only.
prepareProcessResult(graphResult) ==
  [aborted |-> graphResult.tag # "result",
   error |-> graphResult.error,
   success |-> graphResult.tag = "result" /\ ~graphResult.error]

\* handleProcessResults: the number of results that carry an error.
failedCount(taskResults) ==
  Cardinality({k \in AllKeys : taskResults[k].tag = "result" /\ taskResults[k].error})

\* results.<field>: the value of a property of an object, undefined when the
\* object does not have it.
Property(obj, field) ==
  IF field \in DOMAIN obj
  THEN [defined |-> TRUE, value |-> obj[field]]
  ELSE [defined |-> FALSE]

\* The graph results of a loop that returns: an empty map.
EmptyGraphResults == [k \in AllKeys |-> NoResult]

\* The ProcessResults processActions returns: the results of the initial pass
\* and restartRequired = false without watch, an empty map and the flag of the
\* loop with it.
ProcessResultsOf(graphResults, flag) ==
  [graphResults |-> graphResults, restartRequired |-> flag]

\* prepareProcessResults: Object.entries(graphResults) throws a TypeError on
\* undefined; otherwise the entries of the task type, prepared.
prepareProcessResults(taskType, graphResults) ==
  IF ~graphResults.defined
  THEN [threw |-> TRUE]
  ELSE [threw |-> FALSE,
        entries |-> {k \in AllKeys : k.type = taskType /\ graphResults.value[k] # NoResult}]

\* handleProcessResults: the command result made of the ProcessResults. The
\* graph results are read from results.taskResults.
handleProcessResults(processResults) ==
  LET graphResults == Property(processResults, "taskResults")
      builds == prepareProcessResults("Build", graphResults)
      count == IF graphResults.defined THEN failedCount(graphResults.value) ELSE 0
  IN IF builds.threw
     THEN [threw |-> TRUE, error |-> "TypeError"]
     ELSE IF count > 0
     THEN [threw |-> FALSE, errors |-> <<count>>, restartRequired |-> FALSE]
     ELSE [threw |-> FALSE, errors |-> << >>,
           restartRequired |-> processResults.restartRequired]

\* processActions returns to the command: after the initial pass without
\* watch, after the loop was ended with it.
ProcessActionsReturns ==
  /\ paPc = "initial"
  /\ phase = "idle"
  /\ passNo > 0
  /\ commandResult.stage = "none"
  /\ \E flag \in (IF watch THEN BOOLEAN ELSE {FALSE}) :
       /\ returned' = flag
       /\ commandResult' =
            [stage |-> "results",
             results |-> ProcessResultsOf(IF watch THEN EmptyGraphResults ELSE results, flag)]
  /\ paPc' = "returned"
  /\ passes' = {}
  /\ UNCHANGED <<watch, persistent, footerLog, skipTests, localModeServiceNames, handlers, nEvents,
                 taskErrorDuringLastProcess, restartRequired, endedBy>>
  /\ UNCHANGED <<solverVars, callVars>>

\* The command hands the ProcessResults to handleProcessResults.
HandleProcessResults ==
  /\ commandResult.stage = "results"
  /\ commandResult' =
       [stage |-> "handled",
        results |-> commandResult.results,
        out |-> handleProcessResults(commandResult.results)]
  /\ UNCHANGED <<watch, persistent, footerLog, skipTests, localModeServiceNames, paPc, passes, handlers,
                 nEvents, taskErrorDuringLastProcess, restartRequired, returned, endedBy>>
  /\ UNCHANGED <<solverVars, callVars>>

\* A command that processes its tasks and handles the result: run, dev.
CommandInit ==
  /\ SolverInit
  /\ skipRuntimeDependencies = FALSE
  /\ watch \in BOOLEAN
  /\ persistent = FALSE
  /\ footerLog = TRUE
  /\ skipTests = FALSE
  /\ localModeServiceNames = {}
  /\ paPc = "initial"
  /\ passes = {0}
  /\ handlers = [i \in 1..MaxEvents |-> NoHandler]
  /\ nEvents = 0
  /\ taskErrorDuringLastProcess = FALSE
  /\ restartRequired = "undeclared"
  /\ returned = "none"
  /\ endedBy = "none"
  /\ commandResult = NoCommandResult
  /\ NoCallMade

\* garden.processTasks({ tasks: initialTasks }) of the command.
CommandSubmits ==
  /\ paPc = "initial"
  /\ SubmitTasks

CommandNext ==
  \/ CommandSubmits
  \/ StartTask
  \/ CompleteTask
  \/ FailTask
  \/ Cancel
  \/ ProcessActionsReturns
  \/ HandleProcessResults

CommandSpec == CommandInit /\ [][CommandNext]_vars

\* ------------------------------------------------------------ config graph

ActionRef(kind, name) == [kind |-> kind, name |-> name]

\* The actions of the configs handed to the graph builder: three builds and a
\* deploy.
GraphActions ==
  {ActionRef("Build", "a"), ActionRef("Build", "b"), ActionRef("Build", "e"),
   ActionRef("Deploy", "c")}

\* What a config can name as a dependency: an action of the project or one
\* that does not exist.
DependencyTargets == GraphActions \cup {ActionRef("Run", "missing")}

\* The most dependencies one config declares.
MaxDependencies == 2

\* The declared dependencies of every config: up to MaxDependencies targets,
\* none of them the action itself.
GraphInputs ==
  {deps \in [GraphActions ->
               {ds \in SUBSET DependencyTargets : Cardinality(ds) <= MaxDependencies}] :
     \A a \in GraphActions : a \notin deps[a]}

\* The actions reached from `refs` in one or more steps along `deps`.
RECURSIVE ReachedFrom(_, _, _)
ReachedFrom(deps, frontier, seen) ==
  LET next == UNION {deps[a] \cap GraphActions : a \in frontier} \ seen
  IN IF next = {} THEN seen ELSE ReachedFrom(deps, next, seen \cup next)

\* A cycle check that finds the cycles of two nodes only.
OnTwoCycle(deps) ==
  {a \in GraphActions : \E b \in deps[a] \cap GraphActions : a \in deps[b]}

\* The cycle check of the builder: an action that reaches itself.
OnCycle(deps) == {a \in GraphActions : a \in ReachedFrom(deps, {a}, {})}

\* The actions on a cycle of two or of three nodes.
OnShortCycle(deps) ==
  {a \in GraphActions :
     \E b \in GraphActions \ {a} :
       /\ b \in deps[a]
       /\ \/ a \in deps[b]
          \/ \E x \in GraphActions \ {a, b} : x \in deps[b] /\ a \in deps[x]}

\* The kinds an action of a kind may depend on.
AllowedTargetKinds(kind) ==
  IF kind = "Build" THEN {"Build"} ELSE {"Build", "Deploy", "Run"}

\* The graph builder: a ConfigurationError when an edge target does not exist,
\* when the kind of a target is not allowed or when the edges have a cycle;
\* otherwise the graph, with the declared edges.
buildGraph(deps) ==
  IF \E a \in GraphActions : deps[a] \ GraphActions # {}
  THEN [fn |-> "buildGraph", error |-> "ConfigurationError", refs |-> {}]
  ELSE IF \E a \in GraphActions : \E b \in deps[a] : b.kind \notin AllowedTargetKinds(a.kind)
  THEN [fn |-> "buildGraph", error |-> "ConfigurationError", refs |-> {}]
  ELSE IF OnCycle(deps) # {}
  THEN [fn |-> "buildGraph", error |-> "ConfigurationError", refs |-> OnCycle(deps)]
  ELSE [fn |-> "buildGraph", error |-> "none", edges |-> deps]

\* A getDependants that looks one level up only.
graphGetDependantsDirect(edges, ref, recursive) ==
  {a \in GraphActions : ref \in edges[a]}

\* graph.getDependencies(ref, recursive)
graphGetDependencies(edges, ref, recursive) ==
  IF recursive THEN ReachedFrom(edges, {ref}, {}) ELSE edges[ref]

\* The actions that reach `refs` in one or more steps along the edges.
RECURSIVE ReachingTo(_, _, _)
ReachingTo(edges, frontier, seen) ==
  LET next == {a \in GraphActions : edges[a] \cap frontier # {}} \ seen
  IN IF next = {} THEN seen ELSE ReachingTo(edges, next, seen \cup next)

\* graph.getDependants(ref, recursive)
graphGetDependants(edges, ref, recursive) ==
  IF recursive
  THEN ReachingTo(edges, {ref}, {})
  ELSE {a \in GraphActions : ref \in edges[a]}

\* The builder is handed the configs.
BuildGraph ==
  /\ callArgs.fn = "buildGraph"
  /\ callResult = NoCall
  /\ callResult' = buildGraph(callArgs.deps)
  /\ UNCHANGED <<solverVars, watch, persistent, footerLog, skipTests, localModeServiceNames, paPc,
                 passes, handlers, nEvents, taskErrorDuringLastProcess, restartRequired,
                 returned, endedBy, commandResult, callArgs>>

\* ------------------------------------------------------ module conversion

\* The most services, tasks and tests a module declares.
MaxConfigs == 2

\* The name of the converted module and of the module it can name as a build
\* dependency.
ModuleName == "m"

BuildDependencyLists == {<< >>, <<"lib">>}

RuntimeDependencyLists == {<< >>, <<"db">>}

\* The container modules handed to convert: with or without a Dockerfile,
\* with or without a dummy build, and with services, tasks and tests.
ContainerModules ==
  [type : {"container"},
   hasDockerfile : BOOLEAN,
   dummyBuild : BOOLEAN,
   buildDependencies : BuildDependencyLists,
   runtimeDependencies : RuntimeDependencyLists,
   nServices : 0..MaxConfigs,
   nTasks : 0..MaxConfigs,
   nTests : 0..MaxConfigs]

\* The kubernetes modules handed to convert: every test config with or
\* without a resource that convertServiceResource finds.
KubernetesModules ==
  [type : {"kubernetes"},
   dummyBuild : BOOLEAN,
   containerModule : {"undefined", "lib"},
   runtimeDependencies : RuntimeDependencyLists,
   testTargets : UNION {[1..n -> BOOLEAN] : n \in 0..MaxConfigs}]

\* The n-th service, task and test of a module.
ConfigName(prefix, i) ==
  prefix \o (IF i = 1 THEN "1" ELSE IF i = 2 THEN "2" ELSE "3")

convertBuildDependency(dep) == ActionRef("Build", dep)

convertRuntimeDependency(dep) == ActionRef("Deploy", dep)

\* The dummy build the caller hands to convert when the module needs one.
DummyBuild ==
  [kind |-> "Build", type |-> "exec", name |-> ModuleName, build |-> "undefined",
   dependencies |-> << >>]

\* prepRuntimeDeps of the container convert handler.
prepRuntimeDeps(module, hasBuildAction, deps) ==
  IF hasBuildAction
  THEN MapSeq(deps, convertRuntimeDependency)
  ELSE MapSeq(module.buildDependencies, convertBuildDependency)
         \o MapSeq(deps, convertRuntimeDependency)

\* A container convert that always generates the Build action.
needsContainerBuildAlways(module) == TRUE

\* containerHelpers.hasDockerfile(module, module.version)
needsContainerBuild(module) == module.hasDockerfile

\* convert of the container module type: the actions of the module.
containerConvert(module) ==
  LET hasBuildAction == needsContainerBuild(module) \/ module.dummyBuild
      buildName == IF hasBuildAction THEN ModuleName ELSE "undefined"
      builds ==
        IF needsContainerBuild(module)
        THEN <<[kind |-> "Build", type |-> "container", name |-> ModuleName,
                build |-> "undefined",
                dependencies |-> MapSeq(module.buildDependencies, convertBuildDependency)]>>
        ELSE IF module.dummyBuild THEN <<DummyBuild>> ELSE << >>
      runtime(kind, name) ==
        [kind |-> kind, type |-> "container", name |-> name, build |-> buildName,
         dependencies |-> prepRuntimeDeps(module, hasBuildAction, module.runtimeDependencies)]
  IN builds
       \o [i \in 1..module.nServices |-> runtime("Deploy", ConfigName("service", i))]
       \o [i \in 1..module.nTasks |-> runtime("Run", ConfigName("task", i))]
       \o [i \in 1..module.nTests |->
             runtime("Test", ModuleName \o "-" \o ConfigName("test", i))]

\* prepareRuntimeDependencies(deps, dummyBuild): the runtime dependencies and
\* the dummy build, when there is one.
prepareRuntimeDependencies(deps, dummyBuild) ==
  MapSeq(deps, convertRuntimeDependency)
    \o (IF dummyBuild THEN <<ActionRef("Build", ModuleName)>> ELSE << >>)

\* The indices of the test configs whose resource convertServiceResource finds.
WithTarget(module) ==
  SelectSeq([i \in 1..Len(module.testTargets) |-> i], LAMBDA i : module.testTargets[i])

\* convert of the kubernetes module type: the dummy build, the Deploy action,
\* and a Run and a Test action for every test config with a target.
kubernetesConvert(module) ==
  LET buildName == IF module.dummyBuild THEN ModuleName ELSE "undefined"
      deps == prepareRuntimeDependencies(module.runtimeDependencies, module.dummyBuild)
      deploy ==
        [kind |-> "Deploy", type |-> "kubernetes", name |-> ModuleName, build |-> buildName,
         dependencies |->
           deps \o (IF module.containerModule # "undefined"
                    THEN <<convertBuildDependency(module.containerModule)>> ELSE << >>)]
      run(i) ==
        [kind |-> "Run", type |-> "kubernetes", name |-> ModuleName, build |-> buildName,
         dependencies |-> deps]
      test(i) ==
        [kind |-> "Test", type |-> "kubernetes",
         name |-> ModuleName \o "-" \o ConfigName("test", i), build |-> buildName,
         dependencies |-> deps]
  IN (IF module.dummyBuild THEN <<DummyBuild>> ELSE << >>)
       \o <<deploy>>
       \o MapSeq(WithTarget(module), run)
       \o MapSeq(WithTarget(module), test)

\* The convert handler of the module type is called with the module.
ConvertModule ==
  /\ callArgs.fn = "convert"
  /\ callResult = NoCall
  /\ callResult' =
       [fn |-> "convert",
        actions |-> IF callArgs.module.type = "container"
                    THEN containerConvert(callArgs.module)
                    ELSE kubernetesConvert(callArgs.module)]
  /\ UNCHANGED <<solverVars, watch, persistent, footerLog, skipTests, localModeServiceNames, paPc,
                 passes, handlers, nEvents, taskErrorDuringLastProcess, restartRequired,
                 returned, endedBy, commandResult, callArgs>>

\* ----------------------------------------------------------------- secrets

\* The secret keys configs refer to, in sort order.
SecretKeys == <<"k1", "k2">>

\* A secret is not in the map, has an empty value or has a value.
SecretValues == {"absent", "", "v"}

\* The configs handed to throwOnMissingSecretKeys: one or two, each with the
\* secret keys its template strings refer to.
SecretConfigs ==
  UNION {[1..n -> SUBSET Range(SecretKeys)] : n \in 1..2}

\* Object.entries(secrets).filter(([_key, value]) => value).map(([key]) => key)
keysWithValues(secrets) ==
  {k \in Range(SecretKeys) : secrets[k] # "absent" /\ secrets[k] # ""}

\* detectMissingSecretKeys: the referenced keys without a value, sorted.
detectMissingSecretKeys(referencedKeys, secrets) ==
  SelectSeq(SecretKeys, LAMBDA k : k \in referencedKeys \ keysWithValues(secrets))

\* throwOnMissingSecretKeys: collects the missing keys of every config and
\* logs them; the throw at the end of the function is commented out.
throwOnMissingSecretKeys(configs, secrets) ==
  LET allMissing ==
        SelectSeq([i \in 1..Len(configs) |-> detectMissingSecretKeys(configs[i], secrets)],
                  LAMBDA missing : Len(missing) > 0)
  IN [fn |-> "throwOnMissingSecretKeys",
      allMissing |-> allMissing,
      logged |-> Len(allMissing) > 0,
      threw |-> FALSE]

\* The configs are validated against the loaded secrets.
ValidateSecrets ==
  /\ callArgs.fn = "throwOnMissingSecretKeys"
  /\ callResult = NoCall
  /\ callResult' = throwOnMissingSecretKeys(callArgs.configs, callArgs.secrets)
  /\ UNCHANGED <<solverVars, watch, persistent, footerLog, skipTests, localModeServiceNames, paPc,
                 passes, handlers, nEvents, taskErrorDuringLastProcess, restartRequired,
                 returned, endedBy, commandResult, callArgs>>

\* --------------------------------------------------------------- task lists

\* The graphs handed to the functions that make task lists: the project with
\* its deploy, its test, both or neither disabled.
TaskGraphs == [disabled : SUBSET (Deploys \cup Tests)]

\* The values of an optional list of names.
OptionalNames(names) == {Undefined} \cup {Defined(ns) : ns \in SUBSET names}

\* The patterns of a name filter.
FilterPatterns == Tests \cup {"*", "x*"}

\* minimatch(name, pattern), for a name and the patterns "*" and "x*".
minimatch(name, pattern) == pattern = "*" \/ pattern = name

\* t.moduleName(): the module a test belongs to.
moduleName(t) == BuildOf(t)

\* A getTestActions that does not look at the disabled flag.
getTestsAll(graph) == <<"t">>

\* graph.getTests().filter((t) => !t.isDisabled())
getTests(graph) == SelectSeq(<<"t">>, LAMBDA t : t \notin graph.disabled)

\* getTestActions: the enabled tests, of the modules when modules are given,
\* that match one of the filter names when filter names are given.
getTestActions(graph, modules, filterNames) ==
  LET tests == getTests(graph)
      ofModules ==
        IF modules.defined
        THEN SelectSeq(tests, LAMBDA t : moduleName(t) \in modules.names)
        ELSE tests
  IN IF filterNames.defined
     THEN SelectSeq(ofModules, LAMBDA t : \E n \in filterNames.names : minimatch(t, n))
     ELSE ofModules

\* getTestTasksFromModule: a Test task for every enabled test of the module.
getTestTasksFromModule(graph, module) ==
  MapSeq(SelectSeq(<<"t">>, LAMBDA t : moduleName(t) = module /\ t \notin graph.disabled),
         TestTaskOf)

\* The build and test tasks of the modules of the dev command.
RECURSIVE moduleTasks(_, _, _)
moduleTasks(graph, modules, skipTestsOpt) ==
  IF modules = << >> THEN << >>
  ELSE <<BuildTaskOf(Head(modules))>>
         \o (IF skipTestsOpt THEN << >> ELSE getTestTasksFromModule(graph, Head(modules)))
         \o moduleTasks(graph, Tail(modules), skipTestsOpt)

\* getDevCommandInitialTasks: the module tasks and a Deploy task for every
\* service that is not disabled.
getDevCommandInitialTasks(graph, modules, services, skipTestsOpt) ==
  moduleTasks(graph, modules, skipTestsOpt)
    \o MapSeq(SelectSeq(services, LAMBDA x : x \notin graph.disabled), DeployTaskOf)

\* The test command makes its list of test actions.
GetTestActions ==
  /\ callArgs.fn = "getTestActions"
  /\ callResult = NoCall
  /\ callResult' =
       [fn |-> "getTestActions",
        threw |-> FALSE,
        tasks |-> MapSeq(getTestActions(callArgs.graph, callArgs.modules, callArgs.filterNames),
                         TestTaskOf)]
  /\ UNCHANGED <<solverVars, watch, persistent, footerLog, skipTests, localModeServiceNames, paPc,
                 passes, handlers, nEvents, taskErrorDuringLastProcess, restartRequired,
                 returned, endedBy, commandResult, callArgs>>

\* The dev command makes its initial task list.
GetDevCommandInitialTasks ==
  /\ callArgs.fn = "getDevCommandInitialTasks"
  /\ callResult = NoCall
  /\ callResult' =
       [fn |-> "getDevCommandInitialTasks",
        threw |-> FALSE,
        tasks |-> getDevCommandInitialTasks(callArgs.graph, callArgs.modules,
                                            callArgs.services, callArgs.skipTests)]
  /\ UNCHANGED <<solverVars, watch, persistent, footerLog, skipTests, localModeServiceNames, paPc,
                 passes, handlers, nEvents, taskErrorDuringLastProcess, restartRequired,
                 returned, endedBy, commandResult, callArgs>>

\* The watch tasks of a changed module are made.
GetModuleWatchTasks ==
  /\ callArgs.fn = "getModuleWatchTasks"
  /\ callResult = NoCall
  /\ LET watched == getModuleWatchTasks(callArgs.graph, callArgs.module,
                                        callArgs.servicesWatched, callArgs.devModeDeployNames)
     IN callResult' =
          [fn |-> "getModuleWatchTasks", threw |-> watched.threw, tasks |-> watched.tasks]
  /\ UNCHANGED <<solverVars, watch, persistent, footerLog, skipTests, localModeServiceNames, paPc,
                 passes, handlers, nEvents, taskErrorDuringLastProcess, restartRequired,
                 returned, endedBy, commandResult, callArgs>>

\* The calls of the functions that make task lists.
TaskListCalls ==
  {[fn |-> "getTestActions", graph |-> g, modules |-> ms, filterNames |-> fs] :
     g \in TaskGraphs, ms \in OptionalNames(Builds), fs \in OptionalNames(FilterPatterns)}
    \cup {[fn |-> "getDevCommandInitialTasks", graph |-> g, modules |-> ms, services |-> ss,
           skipTests |-> st] :
            g \in TaskGraphs, ms \in {<<"b1">>, <<"b1", "b2">>}, ss \in {<< >>, <<"d">>},
            st \in BOOLEAN}
    \cup {[fn |-> "getModuleWatchTasks", graph |-> g, module |-> m, servicesWatched |-> sw,
           devModeDeployNames |-> dm] :
            g \in TaskGraphs, m \in Builds, sw \in SUBSET Deploys,
            dm \in OptionalNames(Deploys)}

\* ------------------------------------------------------- template strings

\* A primitive value of the template language, with its JavaScript type.
Primitive(type, v) == [type |-> type, v |-> v]

\* The primitives expressions are evaluated on: the falsy ones and a truthy
\* one of each type.
Primitives ==
  {Primitive("boolean", "true"), Primitive("boolean", "false"),
   Primitive("number", "0"), Primitive("number", "1"),
   Primitive("string", ""), Primitive("string", "a"),
   Primitive("null", "null")}

\* The falsy values of JavaScript.
Falsy ==
  {Primitive("boolean", "false"), Primitive("number", "0"), Primitive("string", ""),
   Primitive("null", "null"), Primitive("undefined", "undefined")}

\* !!v
Truthy(v) == v \notin Falsy

\* An operand that carries an error of the parser.
IsError(res) == res.type = "_error"

\* A logical operator that coerces its result to a boolean.
logicalOperatorCoerced(leftRes, operator, rightRes) ==
  Primitive("boolean",
            IF (IF operator = "&&" THEN Truthy(leftRes) /\ Truthy(rightRes)
                ELSE Truthy(leftRes) \/ Truthy(rightRes))
            THEN "true" ELSE "false")

\* One step of the reduce of buildLogicalExpression: the error of an operand,
\* or the raw operand the operator selects.
logicalOperator(leftRes, operator, rightRes) ==
  IF IsError(leftRes) THEN leftRes
  ELSE IF IsError(rightRes) THEN rightRes
  ELSE IF operator = "&&" THEN (IF ~Truthy(leftRes) THEN leftRes ELSE rightRes)
  ELSE IF operator = "||" THEN (IF Truthy(leftRes) THEN leftRes ELSE rightRes)
  ELSE Primitive("_error", "Unrecognized operator")

\* buildLogicalExpression(head, tail): tail.reduce over (operator, operand).
RECURSIVE buildLogicalExpression(_, _)
buildLogicalExpression(head, tail) ==
  IF tail = << >> THEN head
  ELSE buildLogicalExpression(logicalOperator(head, Head(tail)[1], Head(tail)[2]), Tail(tail))

\* The expression (a && b) || c is evaluated.
EvaluateLogical ==
  /\ callArgs.fn = "buildLogicalExpression"
  /\ callResult = NoCall
  /\ callResult' =
       [fn |-> "buildLogicalExpression",
        value |-> buildLogicalExpression(
                    buildLogicalExpression(callArgs.a, <<<<"&&", callArgs.b>>>>),
                    <<<<"||", callArgs.c>>>>)]
  /\ UNCHANGED <<solverVars, watch, persistent, footerLog, skipTests, localModeServiceNames, paPc,
                 passes, handlers, nEvents, taskErrorDuringLastProcess, restartRequired,
                 returned, endedBy, commandResult, callArgs>>

\* The most clauses of a template string.
MaxParts == 5

\* The clauses the parser returns: an if block with its resolved condition,
\* an else block, an endif block, and a value (a string or null).
Parts ==
  {[block |-> "if", resolved |-> Primitive("boolean", "true")],
   [block |-> "if", resolved |-> Primitive("boolean", "false")],
   [block |-> "else", resolved |-> Primitive("undefined", "undefined")],
   [block |-> "endif", resolved |-> Primitive("undefined", "undefined")],
   [block |-> "none", resolved |-> Primitive("string", "x")],
   [block |-> "none", resolved |-> Primitive("null", "null")]}

\* The parsed template strings.
ParsedStrings == UNION {[1..n -> Parts] : n \in 1..MaxParts}

\* The root of the conditional tree. A node holds its type, the value of an if
\* or else node, the text of a value node and whether it is defined, and the
\* place of its parent in the tree (0: none); the children of a node are the
\* nodes that name it as parent, in the order they were pushed.
RootNode == [type |-> "root", value |-> TRUE, defined |-> FALSE, text |-> "", parent |-> 0]

\* An else node that is pushed under the if node it follows.
elseParentNested(tree, currentNode) == currentNode

\* parent: currentNode.parent of an else node: the parent of its if node.
elseParent(tree, currentNode) == tree[currentNode].parent

\* value: v === null ? "null" : v, as the text that is added to the output.
nodeText(v) == IF v.type = "null" THEN "null" ELSE v.v

\* The conditional tree is assembled clause by clause; currentNode is the
\* place of the node the next clause is pushed under.
RECURSIVE assembleTree(_, _, _)
assembleTree(outputs, tree, currentNode) ==
  IF outputs = << >>
  THEN IF tree[currentNode].type \in {"if", "else"}
       THEN [error |-> "Missing ${endif} after ${if ...} block."]
       ELSE [error |-> "none", tree |-> tree]
  ELSE LET part == Head(outputs)
           current == tree[currentNode]
       IN IF part.block = "if"
          THEN assembleTree(Tail(outputs),
                            Append(tree, [type |-> "if", value |-> Truthy(part.resolved),
                                          defined |-> FALSE, text |-> "",
                                          parent |-> currentNode]),
                            Len(tree) + 1)
          ELSE IF part.block = "else"
          THEN IF current.type # "if"
               THEN [error |-> "Found ${else} block without a preceding ${if...} block."]
               ELSE assembleTree(Tail(outputs),
                                 Append(tree, [type |-> "else", value |-> ~current.value,
                                               defined |-> FALSE, text |-> "",
                                               parent |-> elseParent(tree, currentNode)]),
                                 Len(tree) + 1)
          ELSE IF part.block = "endif"
          THEN IF current.type \in {"if", "else"}
               THEN assembleTree(Tail(outputs), tree, current.parent)
               ELSE [error |-> "Found ${endif} block without a preceding ${if...} block."]
          ELSE assembleTree(Tail(outputs),
                            Append(tree, [type |-> "value", value |-> FALSE,
                                          defined |-> part.resolved.type # "undefined",
                                          text |-> nodeText(part.resolved),
                                          parent |-> currentNode]),
                            currentNode)

\* resolveTree: a defined value node adds its text; the children of the root
\* and of an if or else node whose value holds are resolved in order. The
\* output is the list of the texts added.
RECURSIVE resolveTree(_, _, _)
resolveTree(tree, node, child) ==
  IF child = 0
  THEN IF tree[node].type = "value" /\ tree[node].defined
       THEN <<tree[node].text>>
       ELSE IF tree[node].type = "root" \/ (tree[node].type \in {"if", "else"} /\ tree[node].value)
       THEN resolveTree(tree, node, node + 1)
       ELSE << >>
  ELSE IF child > Len(tree) THEN << >>
  ELSE (IF tree[child].parent = node THEN resolveTree(tree, child, 0) ELSE << >>)
         \o resolveTree(tree, node, child + 1)

\* resolveTemplateString on the clauses the parser returned: the value of the
\* only clause when there is one, the resolved tree when there are more; an
\* error of the tree is rethrown as a TemplateStringError.
resolveTemplateString(outputs) ==
  IF Len(outputs) > 1
  THEN LET tree == assembleTree(outputs, <<RootNode>>, 1)
       IN IF tree.error # "none"
          THEN [fn |-> "resolveTemplateString", error |-> "TemplateStringError",
                message |-> tree.error]
          ELSE [fn |-> "resolveTemplateString", error |-> "none",
                resolved |-> resolveTree(tree.tree, 1, 0)]
  ELSE [fn |-> "resolveTemplateString", error |-> "none",
        resolved |-> <<outputs[1].resolved>>]

\* A template string is resolved.
ResolveTemplateString ==
  /\ callArgs.fn = "resolveTemplateString"
  /\ callResult = NoCall
  /\ callResult' = resolveTemplateString(callArgs.outputs)
  /\ UNCHANGED <<solverVars, watch, persistent, footerLog, skipTests, localModeServiceNames, paPc,
                 passes, handlers, nEvents, taskErrorDuringLastProcess, restartRequired,
                 returned, endedBy, commandResult, callArgs>>

\* The key whose value is spread into the enclosing object.
objectSpreadKey == "$merge"

\* The literal keys of the objects resolved.
LiteralKeys == {"a", "b"}

\* What the value of a literal key resolves to.
LiteralValues == {"1", "2"}

\* An object as the list of its entries, in the order of Object.entries.
Entry(k, v) == [k |-> k, v |-> v]

\* What the value of a $merge key resolves to: a mapping, or a value that is
\* not one (a string that is not resolved yet, under partial resolution).
MergeValues ==
  {[mapping |-> TRUE, entries |-> << >>],
   [mapping |-> TRUE, entries |-> <<Entry("a", "9")>>],
   [mapping |-> TRUE, entries |-> <<Entry("a", "9"), Entry("b", "8")>>],
   [mapping |-> FALSE, entries |-> << >>]}

\* The values an entry of the key can have, resolved.
ResolvedValues(k) ==
  IF k = objectSpreadKey THEN MergeValues
  ELSE {[mapping |-> FALSE, entries |-> <<Entry("value", v)>>] : v \in LiteralValues}

\* The objects resolved: every order of every choice among the keys a, b and
\* $merge, with every value.
ObjectsToResolve ==
  {obj \in UNION {[1..n -> [k : LiteralKeys \cup {objectSpreadKey}, v : MergeValues \cup
                              UNION {ResolvedValues(k) : k \in LiteralKeys}]] : n \in 1..3} :
     /\ \A i, j \in 1..Len(obj) : obj[i].k = obj[j].k => i = j
     /\ \A i \in 1..Len(obj) : obj[i].v \in ResolvedValues(obj[i].k)}

\* The index of a key among the entries, 0 when it is not there.
IndexOfKey(entries, k) ==
  IF \E i \in 1..Len(entries) : entries[i].k = k
  THEN CHOOSE i \in 1..Len(entries) : entries[i].k = k
  ELSE 0

\* An assignment that keeps the value a key already has.
setKeyIfAbsent(output, k, v) ==
  IF IndexOfKey(output, k) = 0 THEN Append(output, Entry(k, v)) ELSE output

\* output[k] = v: the key keeps its place when it is there, and is added at
\* the end when it is not.
setKey(output, k, v) ==
  IF IndexOfKey(output, k) = 0
  THEN Append(output, Entry(k, v))
  ELSE [output EXCEPT ![IndexOfKey(output, k)] = Entry(k, v)]

\* { ...output, ...resolved }
RECURSIVE spread(_, _)
spread(output, resolved) ==
  IF resolved = << >> THEN output
  ELSE spread(setKey(output, Head(resolved).k, Head(resolved).v), Tail(resolved))

\* The loop of resolveTemplateStrings over the entries of an object.
RECURSIVE resolveEntries(_, _, _)
resolveEntries(entries, output, allowPartial) ==
  IF entries = << >> THEN [error |-> "none", output |-> output]
  ELSE LET k == Head(entries).k
           resolved == Head(entries).v
       IN IF k = objectSpreadKey
          THEN IF resolved.mapping
               THEN resolveEntries(Tail(entries), spread(output, resolved.entries), allowPartial)
               ELSE IF allowPartial
               THEN resolveEntries(Tail(entries), setKey(output, k, resolved), allowPartial)
               ELSE [error |-> "ConfigurationError"]
          ELSE resolveEntries(Tail(entries), setKey(output, k, resolved.entries[1].v),
                              allowPartial)

\* resolveTemplateStrings on a plain object.
resolveTemplateStrings(value, allowPartial) ==
  LET r == resolveEntries(value, << >>, allowPartial)
  IN IF r.error = "none"
     THEN [fn |-> "resolveTemplateStrings", error |-> "none", output |-> r.output]
     ELSE [fn |-> "resolveTemplateStrings", error |-> r.error]

\* An object is resolved.
ResolveTemplateStrings ==
  /\ callArgs.fn = "resolveTemplateStrings"
  /\ callResult = NoCall
  /\ callResult' = resolveTemplateStrings(callArgs.value, callArgs.allowPartial)
  /\ UNCHANGED <<solverVars, watch, persistent, footerLog, skipTests, localModeServiceNames, paPc,
                 passes, handlers, nEvents, taskErrorDuringLastProcess, restartRequired,
                 returned, endedBy, commandResult, callArgs>>

\* ------------------------------------------------------------ helm status

\* action.getVersionString() of the Deploy action.
ActionVersion == "v1"

\* The release as helm reports it: its status, and the version and the
\* devMode and localMode flags recorded under .garden in its values ("none":
\* no version recorded).
HelmReleases ==
  [status : {"deployed", "failed", "not found"},
   version : {"none", "v1", "v2"},
   devMode : BOOLEAN,
   localMode : BOOLEAN]

helmStatusMap(status) ==
  CASE status = "unknown" -> "unknown"
    [] status = "deployed" -> "ready"
    [] status = "deleted" -> "missing"
    [] status = "superseded" -> "stopped"
    [] status = "failed" -> "unhealthy"
    [] status = "deleting" -> "stopped"
    [] OTHER -> "unknown"

\* A comparison of the release with the action that looks at the version only.
releaseOutdatedVersionOnly(release, devMode, localMode) ==
  release.version = "none" \/ release.version # ActionVersion

\* The condition under which a deployed release is outdated.
releaseOutdated(release, devMode, localMode) ==
  \/ devMode /\ ~release.devMode
  \/ localMode /\ ~release.localMode
  \/ ~localMode /\ release.localMode
  \/ release.version = "none"
  \/ release.version # ActionVersion

\* getReleaseStatus: `helm status` fails for a release that is not found and
\* the state is missing; the values of a deployed release are compared with
\* the action and the requested modes; a release paused by the cloud is
\* outdated. The modes a missing release was deployed with are undefined,
\* which the caller reads as false.
getReleaseStatus(release, devMode, localMode, paused) ==
  IF release.status = "not found"
  THEN [state |-> "missing", devMode |-> FALSE, localMode |-> FALSE]
  ELSE LET mapped == helmStatusMap(release.status)
           state ==
             IF mapped # "ready" THEN mapped
             ELSE IF releaseOutdated(release, devMode, localMode) THEN "outdated"
             ELSE IF paused THEN "outdated"
             ELSE "ready"
       IN [state |-> state,
           devMode |-> mapped = "ready" /\ release.devMode,
           localMode |-> mapped = "ready" /\ release.localMode]

\* getHelmDeployStatus: the state of the release; a ready release whose target
\* is not configured for the requested mode is outdated, local mode first; the
\* dev-mode syncs are started for a release that is still ready. The version
\* is returned for a ready release only.
getHelmDeployStatus(release, spec, devMode, localMode, paused, configured) ==
  LET helmStatus == getReleaseStatus(release, devMode, localMode, paused)
      inLocalMode == helmStatus.state = "ready" /\ localMode /\ spec.localMode
      inDevMode == helmStatus.state = "ready" /\ ~inLocalMode /\ devMode /\ spec.devMode
      state ==
        IF (inLocalMode \/ inDevMode) /\ ~configured THEN "outdated" ELSE helmStatus.state
  IN [fn |-> "getHelmDeployStatus",
      state |-> state,
      version |-> IF state = "ready" THEN ActionVersion ELSE "undefined",
      devMode |-> helmStatus.devMode,
      localMode |-> helmStatus.localMode,
      syncsStarted |-> inDevMode /\ state = "ready"]

\* The specs of the Deploy action: whether it declares devMode and localMode.
ModeSpecs == [devMode : BOOLEAN, localMode : BOOLEAN]

HelmStatusCalls ==
  {[fn |-> "getHelmDeployStatus", release |-> r, spec |-> sp, devMode |-> dm,
    localMode |-> lm, paused |-> pa, configured |-> cf] :
     r \in HelmReleases, sp \in ModeSpecs, dm \in BOOLEAN, lm \in BOOLEAN,
     pa \in BOOLEAN, cf \in BOOLEAN}

\* The status handler of a helm Deploy is called.
GetHelmDeployStatus ==
  /\ callArgs.fn = "getHelmDeployStatus"
  /\ callResult = NoCall
  /\ callResult' = getHelmDeployStatus(callArgs.release, callArgs.spec, callArgs.devMode,
                                       callArgs.localMode, callArgs.paused, callArgs.configured)
  /\ UNCHANGED <<solverVars, watch, persistent, footerLog, skipTests, localModeServiceNames, paPc,
                 passes, handlers, nEvents, taskErrorDuringLastProcess, restartRequired,
                 returned, endedBy, commandResult, callArgs>>

\* ----------------------------------------------------------- special modes

\* A choice of the mode in which dev mode takes precedence.
specialModeDevFirst(spec, devMode, localMode) ==
  IF devMode /\ spec.devMode THEN "dev"
  ELSE IF localMode /\ spec.localMode THEN "local"
  ELSE "none"

\* if (localMode && localModeSpec) ... else if (devMode && devModeSpec): the
\* mode a Deploy is put in; local mode takes precedence over dev mode.
specialMode(spec, devMode, localMode) ==
  IF localMode /\ spec.localMode THEN "local"
  ELSE IF devMode /\ spec.devMode THEN "dev"
  ELSE "none"

\* No target resource.
NoTarget == [found |-> FALSE, devMode |-> FALSE, localMode |-> FALSE]

\* configureSpecialModesForManifests: the target resource is looked up in the
\* manifests; without one the call throws when a declared mode is requested
\* and returns the manifests otherwise. The target is annotated dev-mode:
\* false and local-mode: false and then configured for one mode at most.
configureSpecialModesForManifests(spec, devMode, localMode, targetFound) ==
  IF ~targetFound
  THEN [threw |-> (devMode /\ spec.devMode) \/ (localMode /\ spec.localMode),
        target |-> NoTarget]
  ELSE LET configured == specialMode(spec, devMode, localMode)
       IN [threw |-> FALSE,
           target |-> [found |-> TRUE,
                       devMode |-> configured = "dev",
                       localMode |-> configured = "local"]]

\* deployKubernetesService: the manifests that are no namespaces are prepared
\* for the special modes, applied and waited for (the wait throws when the
\* resources do not become ready); with a target, local mode or else the
\* dev-mode sync is started.
deployKubernetesService(spec, devMode, localMode, otherManifests, targetFound, becomesReady) ==
  LET prepareResult ==
        IF otherManifests
        THEN configureSpecialModesForManifests(spec, devMode, localMode, targetFound)
        ELSE [threw |-> FALSE, target |-> NoTarget]
      threw == prepareResult.threw \/ (otherManifests /\ ~becomesReady)
      started ==
        IF ~threw /\ prepareResult.target.found
        THEN specialMode(spec, devMode, localMode) ELSE "none"
  IN [fn |-> "deployKubernetesService",
      threw |-> threw,
      target |-> prepareResult.target,
      ready |-> ~threw /\ otherManifests,
      localModeStarted |-> started = "local",
      devModeSyncStarted |-> started = "dev"]

\* The services the dev command can be given and the names its local-mode
\* option matches.
ServiceNames == {"d", "s1"}

SpecialModeCalls ==
  {[fn |-> "deployKubernetesService", spec |-> sp, devMode |-> dm, localMode |-> lm,
    otherManifests |-> om, targetFound |-> tf, ready |-> rd] :
     sp \in ModeSpecs, dm \in BOOLEAN, lm \in BOOLEAN, om \in BOOLEAN, tf \in BOOLEAN,
     rd \in BOOLEAN}
    \cup {[fn |-> "devCommandModes", services |-> ss, localModeServiceNames |-> ls] :
            ss \in SUBSET ServiceNames, ls \in SUBSET ServiceNames}

\* The deploy handler of a kubernetes Deploy is called.
DeployKubernetesService ==
  /\ callArgs.fn = "deployKubernetesService"
  /\ callResult = NoCall
  /\ callResult' = deployKubernetesService(callArgs.spec, callArgs.devMode, callArgs.localMode,
                                           callArgs.otherManifests, callArgs.targetFound,
                                           callArgs.ready)
  /\ UNCHANGED <<solverVars, watch, persistent, footerLog, skipTests, localModeServiceNames, paPc,
                 passes, handlers, nEvents, taskErrorDuringLastProcess, restartRequired,
                 returned, endedBy, commandResult, callArgs>>

\* DevCommand.action computes the names of the services in each mode.
DevCommandModes ==
  /\ callArgs.fn = "devCommandModes"
  /\ callResult = NoCall
  /\ callResult' =
       [fn |-> "devCommandModes",
        devModeServiceNames |-> devModeNames(callArgs.services, callArgs.localModeServiceNames),
        localModeServiceNames |-> callArgs.localModeServiceNames]
  /\ UNCHANGED <<solverVars, watch, persistent, footerLog, skipTests, localModeServiceNames, paPc,
                 passes, handlers, nEvents, taskErrorDuringLastProcess, restartRequired,
                 returned, endedBy, commandResult, callArgs>>

\* ------------------------------------------------------ binary expressions

\* An operand of a binary expression as the parser hands it over: a value of
\* a JavaScript type (a number n/d, with d = 0 for NaN and the infinities; a
\* string s; a boolean, n = 1 for true; null; an array or object, n naming the
\* reference; undefined), with the message of the context when a key did not
\* resolve, or an error (_error) of a kind.
Operand(type, n, d, s, items, message, kind) ==
  [type |-> type, n |-> n, d |-> d, s |-> s, items |-> items, message |-> message,
   kind |-> kind]

Number(n, d) == Operand("number", n, d, "", << >>, << >>, "none")
String(s) == Operand("string", 0, 1, s, << >>, << >>, "none")
Boolean(b) == Operand("boolean", IF b THEN 1 ELSE 0, 1, "", << >>, << >>, "none")
NullValue == Operand("null", 0, 1, "", << >>, << >>, "none")
Array(ref, items) == Operand("array", ref, 1, "", items, << >>, "none")
Object(ref) == Operand("object", ref, 1, "", << >>, << >>, "none")
UndefinedValue(message) == Operand("undefined", 0, 1, "", << >>, message, "none")
ErrorOf(kind, message) == Operand("_error", 0, 1, "", << >>, message, kind)

missingKeyExceptionType == "template-string-missing-key"

\* new TemplateStringError(message, detail): its type is "template-string".
TemplateStringError(message) == ErrorOf("template-string", message)

\* getValue: the resolved value of the operand, without what the context
\* said about it.
getValue(res) == [res EXCEPT !.message = << >>]

isNumber(v) == v.type = "number"

isArray(v) == v.type = "array"

\* typeof
typeof(v) == IF v.type \in {"null", "array", "object"} THEN "object" ELSE v.type

\* left === right: numbers, strings and booleans by value (NaN equals
\* nothing), arrays and objects by reference.
StrictEquals(left, right) ==
  /\ left.type = right.type
  /\ left.n = right.n /\ left.d = right.d /\ left.s = right.s
  /\ ~(left.type = "number" /\ left.n = 0 /\ left.d = 0)

\* A + that adds whatever is no array.
plusUnchecked(left, right) ==
  IF isArray(left) /\ isArray(right) THEN Array(0, left.items \o right.items)
  ELSE Number(left.n * right.d + right.n * left.d, left.d * right.d)

\* The + operator: the sum of two numbers, the concatenation of two arrays (a
\* new array), an error for any other operands.
plus(left, right) ==
  IF isNumber(left) /\ isNumber(right)
  THEN Number(left.n * right.d + right.n * left.d, left.d * right.d)
  ELSE IF isArray(left) /\ isArray(right)
  THEN Array(0, left.items \o right.items)
  ELSE TemplateStringError(<<"Both terms need to be either arrays or numbers for + operator",
                             typeof(left), typeof(right)>>)

\* The operators on two numbers. The operands the expressions are evaluated
\* on are integers; the remainder is taken of natural numbers.
numeric(operator, left, right) ==
  CASE operator = "*" -> Number(left.n * right.n, left.d * right.d)
    [] operator = "/" -> Number(left.n * right.d, left.d * right.n)
    [] operator = "%" ->
         IF right.n > 0 /\ left.n >= 0 THEN Number(left.n % right.n, 1) ELSE Number(0, 0)
    [] operator = "-" -> Number(left.n * right.d - right.n * left.d, left.d * right.d)
    [] operator = "<=" -> Boolean(left.n * right.d <= right.n * left.d)
    [] operator = ">=" -> Boolean(left.n * right.d >= right.n * left.d)
    [] operator = "<" -> Boolean(left.n * right.d < right.n * left.d)
    [] operator = ">" -> Boolean(left.n * right.d > right.n * left.d)
    [] OTHER -> TemplateStringError(<<"Unrecognized operator: ", operator>>)

\* One step of the reduce of buildBinaryExpression.
binaryOperator(leftRes, operator, rightRes) ==
  IF IsError(leftRes) THEN leftRes
  ELSE IF IsError(rightRes) THEN rightRes
  ELSE LET left == getValue(leftRes)
           right == getValue(rightRes)
       IN IF left.type = "undefined" \/ right.type = "undefined"
          THEN LET message == leftRes.message \o rightRes.message
               IN TemplateStringError(IF message # << >> THEN message
                                      ELSE <<"Could not resolve one or more keys.">>)
          ELSE IF operator = "==" THEN Boolean(StrictEquals(left, right))
          ELSE IF operator = "!=" THEN Boolean(~StrictEquals(left, right))
          ELSE IF operator = "+" THEN plus(left, right)
          ELSE IF ~isNumber(left) \/ ~isNumber(right)
          THEN TemplateStringError(<<"Both terms need to be numbers for operator", operator,
                                     typeof(left), typeof(right)>>)
          ELSE numeric(operator, left, right)

\* buildBinaryExpression(head, tail): tail.reduce over (operator, operand).
RECURSIVE buildBinaryExpression(_, _)
buildBinaryExpression(head, tail) ==
  IF tail = << >> THEN head
  ELSE buildBinaryExpression(binaryOperator(head, Head(tail)[1], Head(tail)[2]), Tail(tail))

\* The binary operators of the grammar.
BinaryOperators == {"==", "!=", "+", "-", "*", "/", "%", "<", "<=", ">", ">="}

\* The operands the expressions are evaluated on: values of every type, two
\* arrays with the same items, a key that did not resolve with and without a
\* message, and operands that carry an error.
Operands ==
  {Number(0, 1), Number(1, 1), Number(2, 1), String("a"), String("1"), Boolean(TRUE),
   NullValue, Array(1, <<1>>), Array(2, <<1>>), Object(3),
   UndefinedValue(<< >>), UndefinedValue(<<"Could not find key a">>),
   ErrorOf("template-string", <<"e1">>), ErrorOf(missingKeyExceptionType, <<"e2">>)}

\* The operands of x + y + z.
Terms ==
  {Number(1, 1), Number(2, 1), String("a"), Array(1, << >>), Array(2, <<1>>), Array(3, <<2>>)}

BinaryCalls ==
  {[fn |-> "buildBinaryExpression", left |-> l, operator |-> op, right |-> r] :
     l \in Operands, op \in BinaryOperators, r \in Operands}
    \cup {[fn |-> "plus", x |-> x, y |-> y, z |-> z] : x \in Terms, y \in Terms, z \in Terms}

\* The expression left operator right is evaluated.
EvaluateBinary ==
  /\ callArgs.fn = "buildBinaryExpression"
  /\ callResult = NoCall
  /\ callResult' =
       [fn |-> "buildBinaryExpression",
        value |-> buildBinaryExpression(callArgs.left,
                                        <<<<callArgs.operator, callArgs.right>>>>)]
  /\ UNCHANGED <<solverVars, watch, persistent, footerLog, skipTests, localModeServiceNames, paPc,
                 passes, handlers, nEvents, taskErrorDuringLastProcess, restartRequired,
                 returned, endedBy, commandResult, callArgs>>

\* The expressions (x + y) + z and x + (y + z) are evaluated.
EvaluatePlus ==
  /\ callArgs.fn = "plus"
  /\ callResult = NoCall
  /\ callResult' =
       [fn |-> "plus",
        left |-> buildBinaryExpression(callArgs.x,
                                       <<<<"+", callArgs.y>>, <<"+", callArgs.z>>>>),
        right |-> buildBinaryExpression(
                    callArgs.x,
                    <<<<"+", buildBinaryExpression(callArgs.y, <<<<"+", callArgs.z>>>>)>>>>)]
  /\ UNCHANGED <<solverVars, watch, persistent, footerLog, skipTests, localModeServiceNames, paPc,
                 passes, handlers, nEvents, taskErrorDuringLastProcess, restartRequired,
                 returned, endedBy, commandResult, callArgs>>





\* ----------------------------------------------------------- config layer

\* The calls of the functions of the config layer.
ConfigCalls ==
  {[fn |-> "buildGraph", deps |-> deps] : deps \in GraphInputs}
    \cup {[fn |-> "convert", module |-> m] : m \in ContainerModules \cup KubernetesModules}
    \cup {[fn |-> "throwOnMissingSecretKeys", configs |-> cs, secrets |-> ss] :
            cs \in SecretConfigs, ss \in [Range(SecretKeys) -> SecretValues]}
    \cup TaskListCalls
    \cup {[fn |-> "buildLogicalExpression", a |-> a, b |-> b, c |-> c] :
            a \in Primitives, b \in Primitives, c \in Primitives}
    \cup {[fn |-> "resolveTemplateString", outputs |-> ps] : ps \in ParsedStrings}
    \cup {[fn |-> "resolveTemplateStrings", value |-> obj, allowPartial |-> ap] :
            obj \in ObjectsToResolve, ap \in BOOLEAN}
    \cup HelmStatusCalls
    \cup SpecialModeCalls
    \cup BinaryCalls

ConfigInit ==
  /\ SolverInit
  /\ testResults = [t \in Tests |-> TestNull]
  /\ skipRuntimeDependencies = FALSE
  /\ WatchIdle
  /\ callArgs \in ConfigCalls
  /\ callResult = NoCall

ConfigNext ==
  \/ BuildGraph
  \/ ConvertModule
  \/ ValidateSecrets
  \/ GetTestActions
  \/ GetDevCommandInitialTasks
  \/ GetModuleWatchTasks
  \/ EvaluateLogical
  \/ ResolveTemplateString
  \/ ResolveTemplateStrings
  \/ GetHelmDeployStatus
  \/ DeployKubernetesService
  \/ DevCommandModes
  \/ EvaluateBinary
  \/ EvaluatePlus

ConfigSpec == ConfigInit /\ [][ConfigNext]_vars

\* ----------------------------------------------------------- claims C1-C10

TaskTypes == {k.type : k \in AllKeys}

Occurrences(q, k) == Len(SelectSeq(q, LAMBDA x : x = k))

\* The tasks k depends on, directly or through other tasks.
RECURSIVE PrerequisiteClosure(_)
PrerequisiteClosure(ks) ==
  LET next == UNION {Deps(k) : k \in ks} \ ks
  IN IF next = {} THEN ks ELSE PrerequisiteClosure(ks \cup next)

\* C1: a task that a worker has started had, at its start, every declared
\* prerequisite in a terminal state and was given the result of each of them.
C1_PrerequisitesFirst ==
  \A k \in AllKeys :
    starts[k] > 0 =>
      \A d \in Deps(k) : Terminal(results[d]) /\ d \in given[k] /\ d \notin Range(running)

\* C1 witness: of two independent builds requested in the order b1, b2, the
\* build of b2 has started with the result of its status task while the build
\* of b1 has not started.
C1_Witness ==
  /\ initial = <<Key("Build", "b1"), Key("Build", "b2")>>
  /\ starts[Key("Build", "b2")] = 1
  /\ starts[Key("Build", "b1")] = 0
  /\ given[Key("Build", "b2")] = {Key("BuildStatus", "b2")}

\* C2: no key is queued or run twice: every key is started at most once in a
\* pass, occurs at most once in the queues, the task map holds exactly the
\* closure of the initial list, and at the end of a pass every task that has
\* a result was started exactly once.
C2_Deduplication ==
  /\ \A k \in AllKeys :
       /\ starts[k] <= 1
       /\ Occurrences(pending \o ready \o running, k) <= 1
  /\ phase # "command" => nodes = Range(Requests(initial))
  /\ phase = "idle" =>
       \A k \in nodes : results[k].tag = "result" => starts[k] = 1

\* C2 witness: a pass for <<Deploy d, Test t>>, whose closure requests
\* Build b1, BuildStatus b1 and Deploy d more than once, has ended with every
\* task run once and successful.
C2_Witness ==
  /\ phase = "idle"
  /\ initial = <<Key("Deploy", "d"), Key("Test", "t")>>
  /\ Occurrences(Requests(initial), Key("Build", "b1")) > 1
  /\ \A k \in nodes : Succeeded(results[k]) /\ starts[k] = 1

\* C3: a task whose handler threw in a pass that is not cancelled has a result
\* carrying the error; every transitive dependant of a task with an error
\* result is aborted (null) and was never started, its handler never invoked;
\* a null result is reported aborted and not successful, an error result not
\* successful.
C3_FailurePropagation ==
  /\ \A k \in thrown : ~cancelled => results[k].tag = "result" /\ results[k].error
  /\ \A k \in nodes :
       results[k].error =>
         /\ ~prepareProcessResult(results[k]).success
         /\ \A t \in DependantsIn({k}, nodes) \ {k} :
              results[t] = Null /\ starts[t] = 0 /\ calls[t] = 0
  /\ \A t \in nodes :
       results[t] = Null =>
         prepareProcessResult(results[t]).aborted /\ ~prepareProcessResult(results[t]).success

\* C3 witness: the status task of b1 failed and the test t, a dependant of it
\* through Build b1 and Deploy d, ended aborted without having started.
C3_Witness ==
  /\ phase = "idle"
  /\ ~cancelled
  /\ results[Key("BuildStatus", "b1")].error
  /\ results[Key("Test", "t")] = Null
  /\ starts[Key("Test", "t")] = 0

\* C4: at the end of a pass that was not cancelled, every task that did not
\* throw and has no task that threw among its transitive prerequisites was
\* run and has a successful result; a pass that has not ended can always make
\* a step; with b1 and b2 built independently and only Build b1 failing, b2 is
\* reported success and exactly one task is counted failed.
C4_FailureIsolation ==
  /\ phase = "idle" /\ ~cancelled =>
       \A g \in nodes :
         PrerequisiteClosure({g}) \cap thrown = {} =>
           /\ Succeeded(results[g])
           /\ starts[g] = 1
           /\ prepareProcessResult(results[g]).success
  /\ phase = "solving" => running # << >> \/ (ready # << >> /\ ~cancelled)
  /\ (/\ phase = "idle"
      /\ ~cancelled
      /\ initial = <<Key("Build", "b1"), Key("Build", "b2")>>
      /\ thrown = {Key("Build", "b1")}) =>
       /\ prepareProcessResult(results[Key("Build", "b2")]).success
       /\ failedCount(results) = 1

\* C4 witness: Build b1 failed and the independent Build b2 succeeded.
C4_Witness ==
  /\ phase = "idle"
  /\ ~cancelled
  /\ initial = <<Key("Build", "b1"), Key("Build", "b2")>>
  /\ thrown = {Key("Build", "b1")}
  /\ Succeeded(results[Key("Build", "b2")])

\* C5: once the pass is cancelled it stays cancelled, no task is started and
\* no handler is invoked any more, and every task of the closure that has not
\* been started has a null entry in GraphResults.
C5_Cancellation ==
  /\ [][cancelled /\ cancelled' => starts' = starts /\ calls' = calls]_vars
  /\ [][cancelled /\ phase = "solving" => cancelled']_vars
  /\ [](cancelled => \A k \in nodes : starts[k] = 0 => results[k] = Null)

\* C5 witness: a cancelled pass has ended in which one task had completed
\* before the cancel and another one had not started.
C5_Witness ==
  /\ phase = "idle"
  /\ cancelled
  /\ \E k \in nodes : starts[k] = 1 /\ Succeeded(results[k])
  /\ \E k \in nodes : starts[k] = 0 /\ results[k] = Null

C8_PassesNeverOverlap == Cardinality(passes) <= 1

\* C9: a started Build or Deploy task invokes its handler, once, exactly when
\* its status is not ready or the task is forced; a status task that succeeds
\* has invoked the status handler once and reports ready exactly when the
\* cache held a result at the start of the pass; a successful Build or Deploy
\* is in the cache; so an unforced `deploy d` on a cache that holds b1 and d
\* ends with the two status handlers invoked and no build or deploy handler.
C9_ShortCircuit ==
  /\ \A k \in nodes :
       k.type \in {"Build", "Deploy"} /\ starts[k] > 0 =>
         /\ calls[k] <= 1
         /\ calls[k] > 0 <=> (results[StatusKey(k)].state # "ready" \/ IsForced(k))
         /\ (~cancelled /\ Succeeded(results[k])) => k \in cache
  /\ \A k \in nodes :
       k.type \in {"Build", "Deploy"} /\ Succeeded(results[StatusKey(k)]) =>
         /\ calls[StatusKey(k)] = 1
         /\ results[StatusKey(k)].state = "ready" <=> k \in cacheAtSubmit
  /\ (/\ phase = "idle"
      /\ initial = <<Key("Deploy", "d")>>
      /\ ~force /\ forceActions = {}
      /\ ~cancelled /\ thrown = {}
      /\ {Key("Build", "b1"), Key("Deploy", "d")} \subseteq cacheAtSubmit) =>
       /\ calls[Key("Build", "b1")] = 0 /\ calls[Key("Deploy", "d")] = 0
       /\ calls[Key("BuildStatus", "b1")] = 1 /\ calls[Key("DeployStatus", "d")] = 1
       /\ \A k \in nodes : Succeeded(results[k])

\* C9 witness: the second, unforced `deploy d` after a first one has ended
\* successfully with only the status handlers invoked.
C9_Witness ==
  /\ passNo = 2
  /\ phase = "idle"
  /\ initial = <<Key("Deploy", "d")>>
  /\ ~force /\ forceActions = {}
  /\ Succeeded(results[Key("Deploy", "d")])
  /\ calls[Key("Build", "b1")] = 0 /\ calls[Key("Deploy", "d")] = 0
  /\ calls[Key("DeployStatus", "d")] = 1

\* C10: a running Test task short-circuits (getStatus returned a result and
\* the test handler is not invoked) exactly when the task is not forced and
\* the getResult handler returns a result whose detail says success; a forced
\* task has not called the getResult handler, an unforced one exactly once.
C10_TestShortCircuit ==
  \A k \in Range(running) :
    k.type = "Test" =>
      LET stored == testResults[k.name] IN
      /\ mode[k] = "cached" <=> (~TaskForce(k) /\ stored = TestResult("passed"))
      /\ mode[k] = "cached" <=> calls[k] = 0
      /\ resultCalls[k] = (IF TaskForce(k) THEN 0 ELSE 1)

\* C10 witness: an unforced Test task runs short-circuited on a stored passed
\* result.
C10_Witness ==
  /\ Key("Test", "t") \in Range(running)
  /\ ~TaskForce(Key("Test", "t"))
  /\ testResults["t"] = TestResult("passed")
  /\ mode[Key("Test", "t")] = "cached"
  /\ calls[Key("Test", "t")] = 0

\* C11: result cache consistency: a task that completes successfully leaves
\* its result where the matching status or result task reads it, and a task
\* that fails writes nothing: the cache and the stored test results are as
\* they were before the failure.
C11_ResultCacheConsistency ==
  [][/\ \A k \in AllKeys :
          (k \in thrown' /\ k \notin thrown) =>
            (cache' = cache /\ testResults' = testResults)
     /\ \A k \in Keys :
          (results[k].tag = "none" /\ Succeeded(results'[k])) =>
            /\ k.type \in {"Build", "Deploy"} => k \in cache'
            /\ (k.type = "Test" /\ mode[k] = "process") =>
                 getTestResult(FALSE, testResults'[k.name])[1] = TestResult("passed")]_vars

\* C12: with skip-dependencies a pass for Test t invokes no deploy handler,
\* the handler of Test t is invoked only when the status of Deploy d is ready,
\* and when that status is not ready Test t ends with an error.
C12_SkipDependencies ==
  (skipRuntimeDependencies /\ initial = <<Key("Test", "t")>>) =>
    /\ calls[Key("Deploy", "d")] = 0
    /\ calls[Key("Test", "t")] > 0 => results[Key("DeployStatus", "d")].state = "ready"
    /\ (Terminal(results[Key("Test", "t")])
          /\ Terminal(results[Key("DeployStatus", "d")])
          /\ results[Key("DeployStatus", "d")].tag = "result"
          /\ results[Key("DeployStatus", "d")].state # "ready") =>
         results[Key("Test", "t")].error

\* C13: `delete deploy s1 --dependants-first` with only s1 named, where s2
\* depends on s1: the pass has a delete task for s2, and the delete handler of
\* s1 starts only after the delete task of s2 has terminated.
C13_DependantsFirstDelete ==
  (/\ phase \in {"solving", "idle"}
   /\ passNo = 1
   /\ deleteOpts = [names |-> <<"s1">>, dependantsFirst |-> TRUE, withDependants |-> FALSE]) =>
    /\ DeleteTaskOf("s2") \in nodes
    /\ starts[DeleteTaskOf("s1")] > 0 => Terminal(results[DeleteTaskOf("s2")])

\* The names of the deploys the pass of the delete command deletes.
DeletedNames == {k.name : k \in {n \in nodes : n.type = "delete-service"}}

\* C14: with --with-dependants and a list of names the pass deletes the named
\* deploys and all their recursive dependants and nothing else, each once,
\* and a delete handler starts only after the delete tasks of the direct
\* dependants in that set have terminated, with or without --dependants-first.
C14_WithDependants ==
  (/\ phase \in {"solving", "idle"}
   /\ passNo = 1
   /\ deleteOpts.withDependants
   /\ deleteOpts.names # << >>) =>
    /\ Range(deleteOpts.names) \subseteq DeletedNames
    /\ \A x \in DeletedNames : \A y \in Range(ProjectDeploys) :
         x \in DeployDependencies(y) => y \in DeletedNames
    /\ \A y \in DeletedNames \ Range(deleteOpts.names) :
         DeployDependencies(y) \cap DeletedNames # {}
    /\ \A x \in DeletedNames :
         /\ Occurrences(initial, DeleteTaskOf(x)) = 1
         /\ Occurrences(pending \o ready \o running, DeleteTaskOf(x)) <= 1
         /\ starts[DeleteTaskOf(x)] <= 1
         /\ calls[DeleteTaskOf(x)] <= 1
    /\ \A x \in DeletedNames : \A y \in DeletedNames :
         (x \in DeployDependencies(y) /\ starts[DeleteTaskOf(x)] > 0) =>
           Terminal(results[DeleteTaskOf(y)])

\* C14 witness: `delete deploy s1 --with-dependants` without --dependants-first
\* has deleted s3, then s2, and the delete handler of s1 has started.
C14_Witness ==
  /\ deleteOpts = [names |-> <<"s1">>, dependantsFirst |-> FALSE, withDependants |-> TRUE]
  /\ Succeeded(results[DeleteTaskOf("s3")])
  /\ Succeeded(results[DeleteTaskOf("s2")])
  /\ starts[DeleteTaskOf("s1")] = 1
  /\ DeletedNames = {"s1", "s2", "s3"}

\* The sources-changed handler invocations that are past the change handler.
SourcesHandled ==
  {i \in 1..MaxEvents :
     handlers[i].kind = "actionSourcesChanged" /\ handlers[i].pc \in {"process", "done"}}

C16_DevWatchTasks ==
  \A i \in SourcesHandled :
    LET h == handlers[i] IN
    /\ ("b1" \in h.refs /\ "d" \in devModeServiceNames) =>
         /\ h.scheduled
         /\ {Key("Build", "b1"), Key("Deploy", "d")} \subseteq PrerequisiteClosure(Range(h.tasks))
    /\ \A k \in Range(h.tasks) :
         k.type = "Deploy" => \E a \in h.refs : k.name \in Range(dependantDeploys(a))

\* The config handler invocations that have finished.
ConfigHandled ==
  {i \in 1..MaxEvents : handlers[i].kind \in ConfigKinds /\ handlers[i].pc = "done"}

\* C17: a config event whose re-parse raises a ConfigurationError leaves the
\* loop as it is: nothing is resolved, nothing returned, restartRequired
\* untouched; a re-parse without error ends the loop, and a loop ended by a
\* config event returns restartRequired = true. The loop is ended by a config
\* event only when a re-parse succeeded.
C17_ConfigEvents ==
  /\ [][\A i \in 1..MaxEvents :
          (handlers[i].outcome = "none" /\ handlers'[i].outcome = "ConfigurationError") =>
            /\ paPc' = paPc
            /\ returned' = returned
            /\ restartRequired' = restartRequired
            /\ endedBy' = endedBy
            /\ passes' = passes]_vars
  /\ [](/\ \A i \in ConfigHandled :
             handlers[i].outcome = "ok" => paPc \in {"resolved", "returned"}
        /\ endedBy \in ConfigKinds =>
             /\ \E i \in ConfigHandled : handlers[i].kind = endedBy /\ handlers[i].outcome = "ok"
             /\ restartRequired = TRUE
             /\ paPc = "returned" => returned = TRUE
        /\ (watch /\ endedBy = "none") => (paPc \in {"initial", "watching"} /\ returned = "none"))

\* C17 witness: one re-parse raised a ConfigurationError, a later one
\* succeeded, and processActions has returned restartRequired = true.
C17_Witness ==
  /\ \E i, j \in ConfigHandled :
       /\ i < j
       /\ handlers[i].outcome = "ConfigurationError"
       /\ handlers[j].outcome = "ok"
  /\ endedBy \in ConfigKinds
  /\ paPc = "returned"
  /\ returned = TRUE

\* C18: in watch mode a loop ended by _exit returns restartRequired = false, a
\* loop ended by _restart returns restartRequired = true, each message ends
\* the loop, and the loop returns only when something ended it.
C18_ExitRestart ==
  watch =>
    /\ (paPc = "returned" /\ endedBy = "_exit") => returned = FALSE
    /\ (paPc = "returned" /\ endedBy = "_restart") => returned = TRUE
    /\ endedBy \in {"_exit", "_restart"} => paPc \in {"resolved", "returned"}
    /\ paPc = "returned" => (endedBy # "none" /\ returned \in BOOLEAN)
    /\ paPc # "returned" => returned = "none"

\* C18 witness: the loop was ended by _exit while a handler was still in a
\* pass, and processActions returned restartRequired = false.
C18_Witness ==
  /\ watch
  /\ paPc = "returned"
  /\ endedBy = "_exit"
  /\ returned = FALSE
  /\ passes # {}

\* C19: a task error does not end processActions: the step that records it
\* leaves the loop where it is, the loop keeps waiting after it until a message
\* or a config change ends it, and a sources-changed event that comes after
\* the error, names a watched action and whose change handler returns, starts
\* a pass.
C19_FailureKeepsWatching ==
  /\ [][(taskErrorDuringLastProcess' /\ ~taskErrorDuringLastProcess) =>
          (paPc' = paPc /\ returned' = returned /\ endedBy' = endedBy)]_vars
  /\ []((taskErrorDuringLastProcess /\ endedBy = "none") => paPc = "watching")
  /\ [](\A i \in SourcesHandled :
          (handlers[i].afterError /\ handlers[i].refs \cap {"d", "b1"} # {}
             /\ ~handlers[i].threw) =>
            /\ handlers[i].scheduled
            /\ handlers[i].pc = "process" => i \in passes)

\* C19 witness: a task failed, no footer log resets the flag, and the handler
\* of a later sources-changed event for d is in its pass.
C19_Witness ==
  /\ taskErrorDuringLastProcess
  /\ paPc = "watching"
  /\ \E i \in SourcesHandled :
       /\ handlers[i].afterError
       /\ "d" \in handlers[i].refs
       /\ i \in passes

\* The number of graph results of the ProcessResults that carry an error;
\* an aborted task has the result null and carries none.
FailedGraphResults(processResults) ==
  Cardinality({k \in AllKeys :
    /\ processResults.graphResults[k] # NoResult
    /\ processResults.graphResults[k] # Null
    /\ processResults.graphResults[k].error})

\* C20: handleProcessResults returns an error reporting N failed tasks exactly
\* when N > 0 graph results carry an error, with restartRequired = false;
\* aborted results are not counted; with no failed result the restartRequired
\* of the ProcessResults is passed through.
C20_HandleProcessResults ==
  commandResult.stage = "handled" =>
    LET n == FailedGraphResults(commandResult.results)
        out == commandResult.out
    IN /\ ~out.threw
       /\ n > 0 => (out.errors = <<n>> /\ out.restartRequired = FALSE)
       /\ n = 0 => (out.errors = << >>
                     /\ out.restartRequired = commandResult.results.restartRequired)

\* C21: in every graph the builder emits, b is a dependency of a exactly when
\* a is a dependant of b, for the direct relation and for the recursive one.
C21_DependantsInverse ==
  (callResult.fn = "buildGraph" /\ callResult.error = "none") =>
    \A a, b \in GraphActions : \A recursive \in BOOLEAN :
      b \in graphGetDependencies(callResult.edges, a, recursive)
        <=> a \in graphGetDependants(callResult.edges, b, recursive)

\* C21 witness: a graph with a chain of three actions: e is a recursive
\* dependency of c and not a direct one.
C21_Witness ==
  /\ callResult.fn = "buildGraph"
  /\ callResult.error = "none"
  /\ LET c == ActionRef("Deploy", "c")
         e == ActionRef("Build", "e")
     IN /\ e \in graphGetDependencies(callResult.edges, c, TRUE)
        /\ e \notin graphGetDependencies(callResult.edges, c, FALSE)
        /\ c \in graphGetDependants(callResult.edges, e, TRUE)

\* C22: a graph the builder emits is acyclic, its edge targets exist and its
\* builds depend on builds only; configs with a cycle of two or three nodes
\* give a ConfigurationError and no graph; the Build action the container
\* conversion generates depends on Build actions only.
C22_GraphInvariants ==
  /\ (callResult.fn = "buildGraph" /\ callResult.error = "none") =>
       /\ \A a \in GraphActions : a \notin graphGetDependencies(callResult.edges, a, TRUE)
       /\ \A a \in GraphActions : callResult.edges[a] \subseteq GraphActions
       /\ \A a \in GraphActions :
            a.kind = "Build" => \A b \in callResult.edges[a] : b.kind = "Build"
  /\ (callResult.fn = "buildGraph" /\ OnShortCycle(callArgs.deps) # {}) =>
       /\ callResult.error = "ConfigurationError"
       /\ "edges" \notin DOMAIN callResult
  /\ callResult.fn = "convert" =>
       \A i \in 1..Len(callResult.actions) :
         (callResult.actions[i].kind = "Build" /\ callResult.actions[i].type = "container") =>
           /\ \A j \in 1..Len(callResult.actions[i].dependencies) :
                callResult.actions[i].dependencies[j].kind = "Build"
           /\ Len(callResult.actions[i].dependencies) = Len(callArgs.module.buildDependencies)

\* C22 witness: configs with a cycle over the three builds were rejected.
C22_Witness ==
  /\ callResult.fn = "buildGraph"
  /\ callResult.error = "ConfigurationError"
  /\ callResult.refs = {ActionRef("Build", "a"), ActionRef("Build", "b"), ActionRef("Build", "e")}
  /\ \A a \in callResult.refs : Cardinality(callArgs.deps[a]) = 1

\* The actions of a kind among the converted ones.
ConvertedOfKind(kinds) ==
  {i \in 1..Len(callResult.actions) : callResult.actions[i].kind \in kinds}

\* C23: converting a module yields exactly one Build action, and every Deploy,
\* Run and Test action generated names that Build in its build field.
C23_OneBuildPerModule ==
  callResult.fn = "convert" =>
    /\ Cardinality(ConvertedOfKind({"Build"})) = 1
    /\ \A i \in ConvertedOfKind({"Deploy", "Run", "Test"}) :
         \E b \in ConvertedOfKind({"Build"}) :
           callResult.actions[i].build = callResult.actions[b].name

\* C23 as the code has it: a module yields at most one Build action, and
\* exactly one when the container module has a Dockerfile or the caller hands
\* in a dummy build; every Deploy, Run and Test action names that Build in its
\* build field when there is one and has no build otherwise.
C23_AtMostOneBuild ==
  callResult.fn = "convert" =>
    LET builds == ConvertedOfKind({"Build"})
        expected ==
          callArgs.module.dummyBuild
            \/ (callArgs.module.type = "container" /\ callArgs.module.hasDockerfile)
    IN /\ Cardinality(builds) = (IF expected THEN 1 ELSE 0)
       /\ \A i \in ConvertedOfKind({"Deploy", "Run", "Test"}) :
            IF builds = {}
            THEN callResult.actions[i].build = "undefined"
            ELSE \A b \in builds : callResult.actions[i].build = callResult.actions[b].name

\* C23 witness: a container module without a Dockerfile and without a dummy
\* build was converted to two Deploy actions and no Build.
C23_Witness ==
  /\ callResult.fn = "convert"
  /\ callArgs.module.type = "container"
  /\ ~callArgs.module.hasDockerfile
  /\ ~callArgs.module.dummyBuild
  /\ Cardinality(ConvertedOfKind({"Deploy"})) = 2
  /\ ConvertedOfKind({"Build"}) = {}

\* C24: the actions generated from one module have pairwise distinct
\* (kind, name).
C24_UniqueActionRefs ==
  callResult.fn = "convert" =>
    \A i, j \in 1..Len(callResult.actions) :
      (callResult.actions[i].kind = callResult.actions[j].kind
         /\ callResult.actions[i].name = callResult.actions[j].name) => i = j

\* C25: the validation of secret references fails with a configuration error
\* exactly when a config refers to a secret key that is absent from the loaded
\* secrets or has a blank value.
C25_SecretValidation ==
  callResult.fn = "throwOnMissingSecretKeys" =>
    (callResult.threw <=>
       \E i \in 1..Len(callArgs.configs) : \E k \in callArgs.configs[i] :
         callArgs.secrets[k] \in {"absent", ""})

\* The functions that make task lists.
TaskListFunctions == {"getTestActions", "getDevCommandInitialTasks", "getModuleWatchTasks"}

\* C26: the task lists of getTestActions, getDevCommandInitialTasks and
\* getModuleWatchTasks hold no Test or Deploy task of a disabled action.
C26_DisabledNeverScheduled ==
  callResult.fn \in TaskListFunctions =>
    \A i \in 1..Len(callResult.tasks) :
      callResult.tasks[i].type \in {"Test", "Deploy"} =>
        callResult.tasks[i].name \notin callArgs.graph.disabled

\* C26 witness: with the deploy disabled and the test enabled, the test
\* command lists the test.
C26_Witness ==
  /\ callResult.fn = "getTestActions"
  /\ callArgs.graph.disabled = {"d"}
  /\ callResult.tasks = <<Key("Test", "t")>>

\* C27: for all primitives a, b, c the expression (a && b) || c has the value
\* of a ? b : c, the raw operand.
C27_LogicalTernary ==
  callResult.fn = "buildLogicalExpression" =>
    callResult.value = (IF Truthy(callArgs.a) THEN callArgs.b ELSE callArgs.c)

\* C27 as the code has it: (a && b) || c is the raw b when a and b are both
\* truthy and the raw c otherwise; it is a ? b : c whenever a is falsy or b is
\* truthy.
C27_LogicalTernaryTruthy ==
  callResult.fn = "buildLogicalExpression" =>
    /\ callResult.value =
         (IF Truthy(callArgs.a) /\ Truthy(callArgs.b) THEN callArgs.b ELSE callArgs.c)
    /\ (~Truthy(callArgs.a) \/ Truthy(callArgs.b)) =>
         callResult.value = (IF Truthy(callArgs.a) THEN callArgs.b ELSE callArgs.c)

\* C27 witness: with a = 1, b = "a", c = 0 the value is the raw string "a".
C27_Witness ==
  /\ callResult.fn = "buildLogicalExpression"
  /\ callArgs.a = Primitive("number", "1")
  /\ callArgs.b = Primitive("string", "a")
  /\ callArgs.c = Primitive("number", "0")
  /\ callResult.value = Primitive("string", "a")

\* The open blocks after the clauses, each with whether it has an else yet:
\* <<"bad">> when an else or endif closes nothing.
RECURSIVE OpenBlocks(_, _)
OpenBlocks(outputs, open) ==
  IF outputs = << >> THEN open
  ELSE LET part == Head(outputs)
           n == Len(open)
       IN IF part.block = "if" THEN OpenBlocks(Tail(outputs), Append(open, FALSE))
          ELSE IF part.block = "else"
          THEN IF n = 0 \/ open[n]
               THEN <<"bad">>
               ELSE OpenBlocks(Tail(outputs), [open EXCEPT ![n] = TRUE])
          ELSE IF part.block = "endif"
          THEN IF n = 0 THEN <<"bad">> ELSE OpenBlocks(Tail(outputs), SubSeq(open, 1, n - 1))
          ELSE OpenBlocks(Tail(outputs), open)

\* C28: a sequence of clauses resolves only if every else closes an open if
\* without an else, every endif closes an open block and none is left open;
\* otherwise the call fails with a template error and produces no value.
C28_ConditionalStructure ==
  callResult.fn = "resolveTemplateString" =>
    IF OpenBlocks(callArgs.outputs, << >>) = << >>
    THEN callResult.error = "none"
    ELSE callResult.error = "TemplateStringError" /\ "resolved" \notin DOMAIN callResult

\* The place of the $merge entry of the object resolved, 0 without one.
MergeAt == IndexOfKey(callArgs.value, objectSpreadKey)

\* The value a key has in the resolved object, "absent" without the key.
OutputOf(k) ==
  LET i == IndexOfKey(callResult.output, k)
  IN IF i = 0 THEN "absent" ELSE callResult.output[i].v

\* C29: the keys of the mapping $merge resolves to are spread into the
\* resolved object; a literal key wins over $merge when it comes later in the
\* object; a $merge value that is no mapping fails with a ConfigurationError,
\* unless partial resolution is allowed, and then the $merge key is kept.
C29_ObjectSpread ==
  callResult.fn = "resolveTemplateStrings" =>
    LET value == callArgs.value
        merged == IF MergeAt = 0 THEN << >> ELSE value[MergeAt].v.entries
        isMapping == MergeAt = 0 \/ value[MergeAt].v.mapping
    IN IF ~isMapping /\ ~callArgs.allowPartial
       THEN callResult.error = "ConfigurationError" /\ "output" \notin DOMAIN callResult
       ELSE /\ callResult.error = "none"
            /\ \A k \in LiteralKeys :
                 LET lit == IndexOfKey(value, k)
                     mrg == IndexOfKey(merged, k)
                 IN OutputOf(k) =
                      (IF lit # 0 /\ (mrg = 0 \/ lit > MergeAt) THEN value[lit].v.entries[1].v
                       ELSE IF mrg # 0 THEN merged[mrg].v
                       ELSE "absent")
            /\ IF isMapping
               THEN OutputOf(objectSpreadKey) = "absent"
               ELSE OutputOf(objectSpreadKey) = value[MergeAt].v

\* C29 witness: $merge resolved to {a: 9, b: 8} between the literal keys b and
\* a: b has the merged value and a the literal one.
C29_Witness ==
  /\ callResult.fn = "resolveTemplateStrings"
  /\ callResult.error = "none"
  /\ Len(callArgs.value) = 3
  /\ MergeAt = 2
  /\ callArgs.value[1].k = "b"
  /\ Len(callArgs.value[2].v.entries) = 2
  /\ OutputOf("b") = "8"
  /\ OutputOf("a") \in LiteralValues

\* The garden.processTasks calls of the loop that have returned.
PassesEnded ==
  {i \in 1..MaxEvents : handlers[i].pc = "done" /\ handlers[i].scheduled}

C31_PassTerminates ==
  /\ (phase = "solving") ~> Drained(pending, ready, running)
  /\ []((passNo > 0 /\ Drained(pending, ready, running)) =>
         /\ phase = "idle"
         /\ nodes = PrerequisiteClosure(Range(initial))
         /\ \A k \in AllKeys : Terminal(results[k]) <=> k \in nodes)

\* C31 witness: a pass over the closure of the test of t has drained after the
\* deploy of d threw: the deploy carries an error result, the test that
\* depends on it is null, the tasks before it carry results, and the keys of
\* b2 that the closure does not hold have no entry.
C31_Witness ==
  /\ passNo > 0
  /\ phase = "idle"
  /\ Drained(pending, ready, running)
  /\ initial = <<Key("Test", "t")>>
  /\ results[Key("Deploy", "d")] = Result(TRUE, "na")
  /\ results[Key("Test", "t")] = Null
  /\ Succeeded(results[Key("Build", "b1")])
  /\ results[Key("Build", "b2")] = NoResult

\* C32: in persistent mode without watch processActions, once the initial
\* tasks are done, starts no watcher and serves no event of the watch loop; it
\* leaves the wait only on _restart or _exit, returning restartRequired =
\* false, and every _exit (like every _restart) makes it return.
C32_PersistentMode ==
  /\ [](paPc = "persistentWait" =>
         ~watch /\ persistent /\ passes = {} /\ returned = "none" /\ ~Subscribed)
  /\ [][(paPc = "persistentWait" /\ paPc' # "persistentWait") =>
          (paPc' = "returned" /\ returned' = FALSE /\ endedBy' \in {"_restart", "_exit"})]_vars
  /\ [](\A i \in 1..MaxEvents :
          handlers[i].kind = "_exit" => (paPc = "returned" /\ returned = FALSE))

\* C33: at a taskGraphComplete of the watch loop waiting() is called, and
\* watchingForChanges emitted, exactly when no taskError was emitted since the
\* latest taskGraphProcessing, with or without a footerLog.
C33_WaitingAfterCleanPass ==
  \A i \in PassesEnded :
    handlers[i].complete => (handlers[i].waiting <=> ~handlers[i].errorSince)

\* The request handlers in which an error was raised and caught.
RequestsFailed ==
  {i \in 1..MaxEvents : handlers[i].kind \in RequestKinds /\ handlers[i].threw}

\* C34: an error raised in the handler of a buildRequested, deployRequested,
\* testRequested or taskRequested event, before or in garden.processTasks,
\* leaves processActions where it is: the step does not return, resolve or
\* change restartRequired, the loop keeps waiting until a message or a config
\* change ends it, and the handlers of the events that come after it run as
\* they do otherwise.
C34_RequestErrorsCaught ==
  /\ [][\A i \in 1..MaxEvents :
          (handlers[i].kind \in RequestKinds /\ ~handlers[i].threw /\ handlers'[i].threw) =>
            /\ handlers'[i].pc = "done"
            /\ paPc' = paPc /\ restartRequired' = restartRequired
            /\ returned' = returned /\ endedBy' = endedBy]_vars
  /\ []((RequestsFailed # {} /\ endedBy = "none") =>
         (paPc = "watching" /\ restartRequired = TRUE /\ returned = "none"))
  /\ [](\A i \in RequestsFailed : \A j \in (i + 1)..MaxEvents :
          (handlers[j].kind = "actionSourcesChanged" /\ handlers[j].pc \in {"process", "done"}
             /\ handlers[j].refs \cap actionsToWatch # {} /\ ~handlers[j].threw) =>
            handlers[j].scheduled)

\* C34 witness: a request handler failed in garden.processTasks, and the
\* handler of a later sources-changed event for d has its pass in progress
\* while processActions is still watching.
C34_Witness ==
  /\ paPc = "watching"
  /\ 1 \in RequestsFailed
  /\ handlers[1].scheduled
  /\ handlers[2].kind = "actionSourcesChanged"
  /\ "d" \in handlers[2].refs
  /\ 2 \in passes

RECURSIVE EnclosingBlocks(_, _)
EnclosingBlocks(outputs, open) ==
  IF outputs = << >> THEN open
  ELSE LET part == Head(outputs)
           n == Len(open)
       IN IF part.block = "if"
          THEN EnclosingBlocks(Tail(outputs),
                               Append(open, [condition |-> Truthy(part.resolved),
                                             inElse |-> FALSE]))
          ELSE IF part.block = "else"
          THEN EnclosingBlocks(Tail(outputs), [open EXCEPT ![n].inElse = TRUE])
          ELSE IF part.block = "endif"
          THEN EnclosingBlocks(Tail(outputs), SubSeq(open, 1, n - 1))
          ELSE EnclosingBlocks(Tail(outputs), open)

\* Whether clause i is in a branch that is taken: every enclosing if holds,
\* and the if of every enclosing else does not.
BranchTaken(outputs, i) ==
  LET open == EnclosingBlocks(SubSeq(outputs, 1, i - 1), << >>)
  IN \A k \in 1..Len(open) : open[k].condition # open[k].inElse

\* The texts of the value clauses from clause i on that are in a taken branch.
RECURSIVE Contributions(_, _)
Contributions(outputs, i) ==
  IF i > Len(outputs) THEN << >>
  ELSE (IF outputs[i].block = "none" /\ BranchTaken(outputs, i)
        THEN <<IF outputs[i].resolved.type = "null" THEN "null" ELSE outputs[i].resolved.v>>
        ELSE << >>)
         \o Contributions(outputs, i + 1)

\* The well-formed template strings with a conditional that were resolved.
ConditionalResolved ==
  /\ callResult.fn = "resolveTemplateString"
  /\ OpenBlocks(callArgs.outputs, << >>) = << >>
  /\ \E i \in 1..Len(callArgs.outputs) : callArgs.outputs[i].block = "if"

\* C37: the output of a template with if/else/endif clauses is made of the
\* value clauses in a taken branch (every enclosing if holds, the if of every
\* enclosing else does not) and of no other, in order, with null rendered as
\* the text "null"; of the two branches of an if/else pair exactly one
\* contributes.
C37_ConditionalEvaluation ==
  ConditionalResolved =>
    LET outputs == callArgs.outputs IN
    /\ callResult.error = "none"
    /\ callResult.resolved = Contributions(outputs, 1)
    /\ (/\ Len(outputs) = 5
        /\ outputs[1].block = "if" /\ outputs[2].block = "none"
        /\ outputs[3].block = "else" /\ outputs[4].block = "none"
        /\ outputs[5].block = "endif") =>
         callResult.resolved =
           <<IF outputs[1].resolved = Primitive("boolean", "true")
             THEN outputs[2].resolved.v ELSE outputs[4].resolved.v>>

\* C37 witness: `${if false}x${else}${null}${endif}` resolves to the text
\* "null": the value of the if branch does not contribute, the null of the
\* else branch does.
C37_Witness ==
  /\ callResult.fn = "resolveTemplateString"
  /\ callArgs.outputs =
       <<[block |-> "if", resolved |-> Primitive("boolean", "false")],
         [block |-> "none", resolved |-> Primitive("string", "x")],
         [block |-> "else", resolved |-> Primitive("undefined", "undefined")],
         [block |-> "none", resolved |-> Primitive("null", "null")],
         [block |-> "endif", resolved |-> Primitive("undefined", "undefined")]>>
  /\ callResult.error = "none"
  /\ callResult.resolved = <<"null">>

\* The operands that are a value: neither undefined nor an error.
DefinedOperands == {v \in Operands : v.type \notin {"undefined", "_error"}}

\* C38: on defined operands + yields the sum when both are numbers, the
\* concatenation when both are arrays, and a template error without a value
\* for every other pair of types; (x + y) + z and x + (y + z) give the same
\* array.
C38_PlusOperator ==
  /\ (/\ callResult.fn = "buildBinaryExpression"
      /\ callArgs.operator = "+"
      /\ callArgs.left \in DefinedOperands
      /\ callArgs.right \in DefinedOperands) =>
       LET left == callArgs.left
           right == callArgs.right
           value == callResult.value
       IN IF left.type = "number" /\ right.type = "number"
          THEN value.type = "number" /\ value.d = 1 /\ value.n = left.n + right.n
          ELSE IF left.type = "array" /\ right.type = "array"
          THEN value.type = "array" /\ value.items = left.items \o right.items
          ELSE value.type = "_error" /\ value.kind = "template-string"
  /\ (/\ callResult.fn = "plus"
      /\ \A t \in {callArgs.x, callArgs.y, callArgs.z} : t.type = "array") =>
       /\ callResult.left.type = "array"
       /\ callResult.right.type = "array"
       /\ callResult.left.items = callResult.right.items
       /\ callResult.left.items = callArgs.x.items \o callArgs.y.items \o callArgs.z.items

\* C38 witness: for x = [1], y = [], z = [2] both (x + y) + z and x + (y + z)
\* are the array [1, 2].
C38_Witness ==
  /\ callResult.fn = "plus"
  /\ callArgs.x.items = <<1>> /\ callArgs.x.type = "array"
  /\ callArgs.y.items = << >> /\ callArgs.y.type = "array"
  /\ callArgs.z.items = <<2>> /\ callArgs.z.type = "array"
  /\ callResult.left.items = <<1, 2>>
  /\ callResult.right.items = <<1, 2>>


\* The primitives: numbers, strings, booleans and null.
IsPrimitive(v) == v.type \in {"number", "string", "boolean", "null"}

\* The two primitives are the same value.
SameValue(left, right) ==
  /\ left.type = right.type
  /\ left.type = "number" => left.n = right.n
  /\ left.type = "string" => left.s = right.s
  /\ left.type = "boolean" => left.n = right.n

\* C39: on defined operands == and != compare two primitives by value and
\* yield a template error when an operand is an array or an object; the
\* operators <, <=, >, >=, -, *, / and % yield a template error unless both
\* operands are numbers.
C39_Comparisons ==
  (/\ callResult.fn = "buildBinaryExpression"
   /\ callArgs.left \in DefinedOperands
   /\ callArgs.right \in DefinedOperands) =>
    LET left == callArgs.left
        right == callArgs.right
        value == callResult.value
    IN /\ callArgs.operator \in {"==", "!="} =>
            IF IsPrimitive(left) /\ IsPrimitive(right)
            THEN value = Boolean((callArgs.operator = "==") <=> SameValue(left, right))
            ELSE value.type = "_error" /\ value.kind = "template-string"
       /\ callArgs.operator \in {"<", "<=", ">", ">=", "-", "*", "/", "%"} =>
            ((left.type # "number" \/ right.type # "number")
               <=> (value.type = "_error" /\ value.kind = "template-string"))


\* C40: an operand that carries an error makes the expression that error
\* itself, the left one first; otherwise an undefined operand makes the
\* expression fail with an error of the missing-key kind.
C40_UndefinedOperand ==
  callResult.fn = "buildBinaryExpression" =>
    LET left == callArgs.left
        right == callArgs.right
        value == callResult.value
    IN IF left.type = "_error" THEN value = left
       ELSE IF right.type = "_error" THEN value = right
       ELSE (left.type = "undefined" \/ right.type = "undefined") =>
              value.type = "_error" /\ value.kind = missingKeyExceptionType

====
